---- MODULE Spec2Model ----
(***************************************************************************)
(* A model of the PDF image resampler (src/src/lib.rs): the content-stream *)
(* scanner (ContentScanner), the display-size reducer                      *)
(* (get_display_info_map) and the image transformer                        *)
(* (process_images_in_doc), driven by the two entry points                 *)
(* extract_pdf_images_info (scan only) and resample_pdf_bytes.             *)
(*                                                                         *)
(* Numbers: f32 values are modelled by integers, and every matrix used has *)
(* at most one non-zero entry per row, so a*a+b*b is a perfect square and  *)
(* sqrt is exact.  DPI comparisons are done on exact rationals by cross    *)
(* multiplication.  A content stream is modelled after tokenization, as    *)
(* the token vector the operator loop walks.                               *)
(***************************************************************************)
EXTENDS Integers, Sequences, FiniteSets, TLC

VARIABLES
    mode,             \* "info": extract_pdf_images_info; "resample": resample_pdf_bytes
    input_loads,      \* the input bytes are a PDF that Document::load_mem accepts
    options,          \* ResampleOptions: target_dpi, min_dpi, quality
    contents,         \* the document: token vector of every content stream
    objects,          \* the document: image XObject streams, ObjectId -> stream
    pc,               \* position in the entry point
    run,              \* 1 for the first call, 2 for the call on its own output
    calls,            \* scan_all_pages: pages and annotation appearances still to scan
    frames,           \* call stack of scan_content_stream activations
    display_info,     \* ContentScanner.display_info
    image_dims,       \* ContentScanner.image_dims
    scanned_forms,    \* ContentScanner.scanned_forms
    display_info_map, \* result of get_display_info_map
    image_objects,    \* process_images_in_doc: image ObjectIds still to visit
    cur,              \* process_images_in_doc: locals of the current iteration
    total_images,
    resampled_images,
    skipped_images,
    result,           \* "none", "Ok", "InvalidQuality", "LoadError", "ProcessingError"
    entered,          \* history: how often each stream's content was interpreted
    loaded,           \* history: `objects` as loaded at the start of the run
    first             \* history: counters returned by the first run

vars == <<mode, input_loads, options, contents, objects, pc, run, calls, frames, display_info,
          image_dims, scanned_forms, display_info_map, image_objects, cur,
          total_images, resampled_images, skipped_images, result, entered,
          loaded, first>>

(***************************************************************************)
(* Bounds of the model.                                                    *)
(***************************************************************************)
\* number of phrases a generated page content stream is built from
MaxPhrases == 3
\* cap on the depth of the scanner's call stack (never reached, see DepthBounded)
MaxDepth == 6
\* number of times the pipeline is run on its own output
MaxRuns == 2
\* longest first stream, in characters, of a tokenized Contents array
MaxChars == 4
\* longest page stream, in tokens, of the termination check
MaxLivePage == 8

(***************************************************************************)
(* Matrix (lib.rs 155-201).                                                *)
(***************************************************************************)
Mat(a, b, c, d, e, f) == [a |-> a, b |-> b, c |-> c, d |-> d, e |-> e, f |-> f]

identity == Mat(1, 0, 0, 1, 0, 0)

concat_skewed(self, other) ==
    [a |-> self.a * other.a + self.b * other.c,
     b |-> self.a * other.b + self.b * other.a,
     c |-> self.c * other.a + self.d * other.c,
     d |-> self.c * other.b + self.d * other.d,
     e |-> self.e * other.a + self.f * other.c + other.e,
     f |-> self.e * other.b + self.f * other.d + other.f]

\* self * other
concat(self, other) ==
    [a |-> self.a * other.a + self.b * other.c,
     b |-> self.a * other.b + self.b * other.d,
     c |-> self.c * other.a + self.d * other.c,
     d |-> self.c * other.b + self.d * other.d,
     e |-> self.e * other.a + self.f * other.c + other.e,
     f |-> self.e * other.b + self.f * other.d + other.f]

\* f32::sqrt on a perfect square
sqrt(n) == CHOOSE r \in 0..n : r * r = n

scale_x_diagonal(m) == sqrt(m.a * m.a)

scale_x(m) == sqrt(m.a * m.a + m.b * m.b)

scale_y(m) == sqrt(m.c * m.c + m.d * m.d)

(***************************************************************************)
(* Tokens of a content stream.                                             *)
(***************************************************************************)
Num(n) == [k |-> "num", s |-> "", n |-> n]

Word(s) == [k |-> "word", s |-> s, n |-> 0]

\* a name token "/s": the resolver strips the leading slash
Name(s) == [k |-> "name", s |-> s, n |-> 0]

\* parse_number: Some(n) exactly for a numeric token
parse_number(tok) == IF tok.k = "num" THEN <<tok.n>> ELSE <<>>

\* tokens[i - 1].trim_start_matches('/')
trim_name(tok) == IF tok.k = "num" THEN "#" ELSE tok.s

CmTokens(m) == <<Num(m.a), Num(m.b), Num(m.c), Num(m.d), Num(m.e), Num(m.f), Word("cm")>>

DoTokens(n) == <<Name(n), Word("Do")>>

GsTokens(n) == <<Name(n), Word("gs")>>

\* q  m cm  /n Do  Q
Block(m, n) == <<Word("q")>> \o CmTokens(m) \o DoTokens(n) \o <<Word("Q")>>

(***************************************************************************)
(* The document.  Its layout (which dictionary names which object) is      *)
(* fixed; the content streams and the image streams are chosen in Init.    *)
(*   N1      the page-tree node, parent of both pages, Resources = RPage   *)
(*   P1      page without a Resources entry, Contents one stream (P1)      *)
(*   P2      page with Resources = RPage2 (RPage without /Im3), Contents   *)
(*           an array of two streams (P2, P2b), and one annotation         *)
(*   F1, F2  Form XObjects, Resources = RForm; F2 has Matrix [2 0 0 2 0 0] *)
(*   F3      Form XObject without a Resources entry                        *)
(*   T1      tiling pattern, Resources = RPat, which lists T1 itself       *)
(*   G1      ExtGState dictionary with SMask << /G F2 >>                   *)
(*   I1..    image XObjects (variable `objects`)                           *)
(***************************************************************************)
\* doc.get_pages()
Pages == <<"P1", "P2">>

FormIds == {"F1", "F2", "F3"}

PatternIds == {"T1"}

\* objects of the document that are streams with a content stream of their own
ContentIds == {"P1", "P2", "P2b"} \cup FormIds \cup PatternIds

\* the Contents entry of a page dictionary: one stream, or an array of streams
PageContents(page) == IF page = "P2" THEN <<"P2", "P2b">> ELSE <<page>>

\* doc.get_object(id) is Ok(Object::Stream(_))
IsStream(id) == id \in FormIds \cup PatternIds \cup DOMAIN objects

\* the stream dictionary's Subtype entry
Subtype(id) ==
    IF id \in FormIds THEN "Form"
    ELSE IF id \in DOMAIN objects THEN objects[id].Subtype
    ELSE "none"

\* dict.get(b"Resources") of a page, page-tree node or stream dictionary:
\* Ok(r) as <<r>>, Err as <<>>
OwnResources(id) ==
    IF id = "N1" THEN <<"RPage">>
    ELSE IF id = "P2" THEN <<"RPage2">>
    ELSE IF id \in {"F1", "F2"} THEN <<"RForm">>
    ELSE IF id \in PatternIds THEN <<"RPat">>
    ELSE <<>>

\* the Parent entry of a page dictionary
Parent(page) == "N1"

\* the Pages entry of the document catalog
CatalogPages == "N1"

\* get_page_resources: the page's own Resources entry if it has one, else its
\* parent's, else the root page-tree node's, else Object::Null
get_page_resources(page) ==
    IF OwnResources(page) # <<>> THEN OwnResources(page)[1]
    ELSE IF OwnResources(Parent(page)) # <<>> THEN OwnResources(Parent(page))[1]
    ELSE IF OwnResources(CatalogPages) # <<>> THEN OwnResources(CatalogPages)[1]
    ELSE "Null"

\* the resources scan_content_stream is called with: get_page_resources for a
\* page, .get(b"Resources").cloned().unwrap_or(Object::Null) for a stream
Resources(id) ==
    IF id \in {"P1", "P2"} THEN get_page_resources(id)
    ELSE IF OwnResources(id) # <<>> THEN OwnResources(id)[1]
    ELSE "Null"

\* the XObject dictionary of each Resources dictionary of the document
XObjectDict(resources) ==
    LET all == [n \in {"Im1", "Im2", "Im3", "Fm1", "Fm2", "Fm3"} |->
                  CASE n = "Im1" -> "I1" [] n = "Im2" -> "I2" [] n = "Im3" -> "I3"
                    [] n = "Fm1" -> "F1" [] n = "Fm2" -> "F2" [] n = "Fm3" -> "F3"]
    IN  IF resources \in {"RPage", "RForm"} THEN all
        ELSE IF resources = "RPage2"
        THEN [n \in DOMAIN all \ {"Im3"} |-> all[n]]
        ELSE IF resources = "RPat" THEN [n \in {"Im2"} |-> "I2"]
        ELSE [n \in {} |-> "none"]

\* the name -> ObjectId map of the one dictionary `resources` resolves to;
\* empty when it is no dictionary (Object::Null)
get_xobjects_from_resources(resources) == XObjectDict(resources)

get_extgstates_from_resources(resources) ==
    IF resources \in {"RPage", "RPage2", "RForm"}
    THEN [n \in {"GS1"} |-> "G1"]
    ELSE [n \in {} |-> "none"]

\* Some(form_id) as <<form_id>>, None as <<>>
get_smask_form_from_extgstate(gs_id) == IF gs_id = "G1" THEN <<"F2">> ELSE <<>>

get_pattern_forms_from_resources(resources) ==
    IF resources \in {"RPage", "RPage2", "RPat"} THEN <<"T1">> ELSE <<>>

matrix_ignored(id) == identity

\* the Matrix entry of a stream dictionary, identity when absent
parse_matrix_from_dict(id) == IF id = "F2" THEN Mat(2, 0, 0, 2, 0, 0) ELSE identity

\* scan_page_annotations / scan_annotation / scan_appearance_entry: the ids the
\* appearance entries N, R, D of the page's annotations reference, in order.
\* P2's annotation has AP << /N F1 /D << /On F2 /Off G1 >> >>.
AppearanceIds(page) == IF page = "P2" THEN <<"F1", "F2", "G1">> ELSE <<>>

(***************************************************************************)
(* The scanner (ContentScanner).                                           *)
(***************************************************************************)
Last(s) == s[Len(s)]

Front(s) == SubSeq(s, 1, Len(s) - 1)

RECURSIVE Joined(_, _)
\* the streams of a Contents array from position j on, each followed by '\n':
\* the separator ends a token, so the token vectors follow one another
Joined(streams, j) ==
    IF j > Len(streams) THEN <<>>
    ELSE contents[streams[j]] \o Joined(streams, j + 1)

\* get_content_data of a page's Contents; decompress_stream of a form or pattern
get_content_data(id) ==
    IF id \in {"P1", "P2"} THEN Joined(PageContents(id), 1) ELSE contents[id]

\* the activation record of one scan_content_stream call
NewFrame(id, resources, initial_matrix) ==
    [id |-> id, toks |-> get_content_data(id), i |-> 1,
     matrix_stack |-> <<initial_matrix>>, res |-> resources,
     pats |-> get_pattern_forms_from_resources(resources)]

Top == Last(frames)

\* the caller's frame after `i += 1`
Advance(fr) == [fr EXCEPT !.i = @ + 1]

\* matrix_stack.last().copied().unwrap_or(Matrix::identity())
current_matrix(stack) == IF stack = <<>> THEN identity ELSE Last(stack)

\* "q": push a copy of the top
PushQ(stack) == IF stack = <<>> THEN stack ELSE Append(stack, Last(stack))

PopQUnguarded(stack) == Front(stack)

\* "Q": pop unless the stack holds one matrix
PopQ(stack) == IF Len(stack) > 1 THEN Front(stack) ELSE stack

CmOperandLoose(toks, i) ==
    IF i >= 7
    THEN <<Mat(toks[i - 6].n, toks[i - 5].n, toks[i - 4].n,
               toks[i - 3].n, toks[i - 2].n, toks[i - 1].n)>>
    ELSE <<>>

\* "cm": the six tokens before position i, all numbers, else no effect
CmOperand(toks, i) ==
    IF i >= 7 /\ \A j \in 1..6 : parse_number(toks[i - j]) # <<>>
    THEN <<Mat(toks[i - 6].n, toks[i - 5].n, toks[i - 4].n,
               toks[i - 3].n, toks[i - 2].n, toks[i - 1].n)>>
    ELSE <<>>

ApplyCmAll(stack, toks, i) ==
    IF CmOperand(toks, i) # <<>> /\ stack # <<>>
    THEN [k \in 1..Len(stack) |-> concat(stack[k], CmOperand(toks, i)[1])]
    ELSE stack

\* "cm": *current = current.concat(&new_matrix), on the top entry only
ApplyCm(stack, toks, i) ==
    IF CmOperand(toks, i) # <<>> /\ stack # <<>>
    THEN [stack EXCEPT ![Len(stack)] = concat(@, CmOperand(toks, i)[1])]
    ELSE stack

RecordAlways(info, obj_id, display_w, display_h) ==
    [info EXCEPT ![obj_id] = Append(@, <<display_w, display_h>>)]

\* display_info.entry(obj_id).or_default().push(..) when both are positive
Record(info, obj_id, display_w, display_h) ==
    IF display_w > 0 /\ display_h > 0
    THEN [info EXCEPT ![obj_id] = Append(@, <<display_w, display_h>>)]
    ELSE info

NeverScanned(id) == FALSE

\* self.scanned_forms.contains(&form_id)
AlreadyScanned(id) == id \in scanned_forms

(***************************************************************************)
(* scan_form_xobject / scan_tiling_pattern, called with the caller's       *)
(* frames `base`: return at once on a visited id, else mark it and         *)
(* interpret its content on a matrix stack of its own.                     *)
(***************************************************************************)
scan_form_xobject(form_id, parent_matrix, base) ==
    IF AlreadyScanned(form_id)
    THEN /\ frames' = base
         /\ UNCHANGED <<scanned_forms, entered>>
    ELSE /\ scanned_forms' = scanned_forms \cup {form_id}
         /\ IF IsStream(form_id)
            THEN /\ Len(base) < MaxDepth
                 /\ frames' = Append(base,
                      NewFrame(form_id, Resources(form_id),
                               concat(parent_matrix, parse_matrix_from_dict(form_id))))
                 /\ entered' = [entered EXCEPT ![form_id] = @ + 1]
            ELSE /\ frames' = base
                 /\ UNCHANGED entered

scan_tiling_pattern(pattern_id, parent_matrix, base) ==
    IF AlreadyScanned(pattern_id)
    THEN /\ frames' = base
         /\ UNCHANGED <<scanned_forms, entered>>
    ELSE /\ scanned_forms' = scanned_forms \cup {pattern_id}
         /\ IF IsStream(pattern_id)
            THEN /\ Len(base) < MaxDepth
                 /\ frames' = Append(base,
                      NewFrame(pattern_id, Resources(pattern_id),
                               concat(parent_matrix, parse_matrix_from_dict(pattern_id))))
                 /\ entered' = [entered EXCEPT ![pattern_id] = @ + 1]
            ELSE /\ frames' = base
                 /\ UNCHANGED entered

\* what the scanner leaves alone
ScanFrame == <<mode, input_loads, options, contents, objects, pc, run, image_dims, display_info_map,
               image_objects, cur, total_images, resampled_images, skipped_images,
               result, loaded, first>>

\* the frames with the top frame replaced
WithTop(fr) == [frames EXCEPT ![Len(frames)] = fr]

\* the operator loop is at a token of the top frame
AtToken == /\ pc = "scan"
           /\ frames # <<>>
           /\ Top.pats = <<>>
           /\ Top.i <= Len(Top.toks)

Token == Top.toks[Top.i]

\* scan_all_pages: the next page; its content is interpreted from [identity],
\* its annotation appearances are queued behind it
ScanPage ==
    /\ pc = "scan" /\ frames = <<>> /\ calls # <<>>
    /\ Head(calls).kind = "page"
    /\ LET page == Head(calls).id
       IN  /\ frames' = <<NewFrame(page, Resources(page), identity)>>
           /\ calls' = [j \in 1..Len(AppearanceIds(page)) |->
                          [kind |-> "ap", id |-> AppearanceIds(page)[j]]] \o Tail(calls)
           /\ entered' = [entered EXCEPT ![page] = @ + 1]
    /\ UNCHANGED <<display_info, scanned_forms>>
    /\ UNCHANGED ScanFrame

\* scan_appearance_entry: self.scan_form_xobject(id, Matrix::identity())
ScanAppearance ==
    /\ pc = "scan" /\ frames = <<>> /\ calls # <<>>
    /\ Head(calls).kind = "ap"
    /\ calls' = Tail(calls)
    /\ scan_form_xobject(Head(calls).id, identity, <<>>)
    /\ UNCHANGED display_info
    /\ UNCHANGED ScanFrame

\* scan_content_stream, before tokenizing: each tiling pattern of the resources
\* is scanned with initial_matrix
ScanPattern ==
    /\ pc = "scan" /\ frames # <<>>
    /\ Top.pats # <<>>
    /\ scan_tiling_pattern(Head(Top.pats), Top.matrix_stack[1],
                           WithTop([Top EXCEPT !.pats = Tail(@)]))
    /\ UNCHANGED <<calls, display_info>>
    /\ UNCHANGED ScanFrame

StepPush ==
    /\ AtToken /\ Token = Word("q")
    /\ frames' = WithTop(Advance([Top EXCEPT !.matrix_stack = PushQ(@)]))
    /\ UNCHANGED <<calls, display_info, scanned_forms, entered>>
    /\ UNCHANGED ScanFrame

StepPop ==
    /\ AtToken /\ Token = Word("Q")
    /\ frames' = WithTop(Advance([Top EXCEPT !.matrix_stack = PopQ(@)]))
    /\ UNCHANGED <<calls, display_info, scanned_forms, entered>>
    /\ UNCHANGED ScanFrame

StepCm ==
    /\ AtToken /\ Token = Word("cm")
    /\ frames' = WithTop(Advance([Top EXCEPT
                    !.matrix_stack = ApplyCm(@, Top.toks, Top.i)]))
    /\ UNCHANGED <<calls, display_info, scanned_forms, entered>>
    /\ UNCHANGED ScanFrame

StepGs ==
    /\ AtToken /\ Token = Word("gs")
    /\ LET extgstates == get_extgstates_from_resources(Top.res)
           name == IF Top.i >= 2 THEN trim_name(Top.toks[Top.i - 1]) ELSE "#"
           form == IF name \in DOMAIN extgstates
                   THEN get_smask_form_from_extgstate(extgstates[name])
                   ELSE <<>>
       IN  IF form # <<>>
           THEN scan_form_xobject(form[1], current_matrix(Top.matrix_stack),
                                  WithTop(Advance(Top)))
           ELSE /\ frames' = WithTop(Advance(Top))
                /\ UNCHANGED <<scanned_forms, entered>>
    /\ UNCHANGED <<calls, display_info>>
    /\ UNCHANGED ScanFrame

StepDo ==
    /\ AtToken /\ Token = Word("Do")
    /\ LET xobjects == get_xobjects_from_resources(Top.res)
           name == IF Top.i >= 2 THEN trim_name(Top.toks[Top.i - 1]) ELSE "#"
           obj_id == IF name \in DOMAIN xobjects THEN xobjects[name] ELSE "none"
           m == current_matrix(Top.matrix_stack)
       IN  IF IsStream(obj_id) /\ Subtype(obj_id) = "Image"
           THEN /\ display_info' = Record(display_info, obj_id, scale_x(m), scale_y(m))
                /\ frames' = WithTop(Advance(Top))
                /\ UNCHANGED <<scanned_forms, entered>>
           ELSE IF IsStream(obj_id) /\ Subtype(obj_id) = "Form"
           THEN /\ scan_form_xobject(obj_id, m, WithTop(Advance(Top)))
                /\ UNCHANGED display_info
           ELSE /\ frames' = WithTop(Advance(Top))
                /\ UNCHANGED <<display_info, scanned_forms, entered>>
    /\ UNCHANGED calls
    /\ UNCHANGED ScanFrame

\* every other token: operands and operators the scanner ignores
StepOther ==
    /\ AtToken /\ Token \notin {Word("q"), Word("Q"), Word("cm"), Word("gs"), Word("Do")}
    /\ frames' = WithTop(Advance(Top))
    /\ UNCHANGED <<calls, display_info, scanned_forms, entered>>
    /\ UNCHANGED ScanFrame

ReturnShared ==
    /\ pc = "scan" /\ frames # <<>>
    /\ Top.pats = <<>> /\ Top.i > Len(Top.toks)
    /\ frames' = IF Len(frames) > 1
                 THEN [Front(frames) EXCEPT ![Len(frames) - 1].matrix_stack =
                                               Top.matrix_stack]
                 ELSE <<>>
    /\ UNCHANGED <<calls, display_info, scanned_forms, entered>>
    /\ UNCHANGED ScanFrame

\* `while i < tokens.len()` ends: scan_content_stream returns to its caller
Return ==
    /\ pc = "scan" /\ frames # <<>>
    /\ Top.pats = <<>> /\ Top.i > Len(Top.toks)
    /\ frames' = Front(frames)
    /\ UNCHANGED <<calls, display_info, scanned_forms, entered>>
    /\ UNCHANGED ScanFrame

(***************************************************************************)
(* The reducer (get_display_info_map).                                     *)
(***************************************************************************)
area(p) == p[1] * p[2]

RECURSIVE fold_max(_, _, _, _)
\* the fold of Iterator::max_by: `keep_later` says what an Equal comparison keeps
fold_max(dims, j, best, keep_later) ==
    IF j > Len(dims) THEN best
    ELSE fold_max(dims, j + 1,
                  IF area(dims[j]) > area(best) \/ (keep_later /\ area(dims[j]) = area(best))
                  THEN dims[j] ELSE best,
                  keep_later)

max_by_first(display_dims) == fold_max(display_dims, 2, display_dims[1], FALSE)

min_by_area(display_dims) ==
    CHOOSE p \in {display_dims[j] : j \in 1..Len(display_dims)} :
        \A j \in 1..Len(display_dims) : area(p) <= area(display_dims[j])

\* display_dims.iter().max_by(|..| area1.partial_cmp(&area2).unwrap()):
\* max_by returns the last element if several are equally maximum
max_by_area(display_dims) == fold_max(display_dims, 2, display_dims[1], TRUE)

get_display_info_map ==
    [obj_id \in {id \in DOMAIN display_info :
                    display_info[id] # <<>> /\ id \in DOMAIN image_dims} |->
        [pixel_width |-> image_dims[obj_id][1],
         pixel_height |-> image_dims[obj_id][2],
         display_width_points |-> max_by_area(display_info[obj_id])[1],
         display_height_points |-> max_by_area(display_info[obj_id])[2]]]

(***************************************************************************)
(* Image streams.  A stream is its dictionary entries plus `data`, what    *)
(* the payload holds: whether it decodes under its filter, how many bytes  *)
(* it decodes to (raw samples), the pixel size a JPEG payload encodes, and *)
(* whether a sampled value is below 255 (soft-mask samples).               *)
(***************************************************************************)
Data(valid, len, pw, ph, low) ==
    [valid |-> valid, len |-> len, pw |-> pw, ph |-> ph, low |-> low]

\* Width and Height are <<n>> for Object::Integer(n) and <<>> otherwise
Image(w, h, filter, cs, bpc, smask, data) ==
    [Subtype |-> "Image", Width |-> w, Height |-> h, Filter |-> filter,
     ColorSpace |-> cs, BitsPerComponent |-> bpc, SMask |-> smask, data |-> data]

\* The modulus of the wrapping cast `as u32`.  The cast wraps modulo 2^32; the
\* integers of this model stay below 2^31, so the word is scaled to 20 bits:
\* every non-negative dimension of the model is below it and is left as it
\* is, and a negative one wraps to a large positive value, as in the code.
U32 == 2 ^ 20

\* .and_then(|w| match w { Object::Integer(n) => Some(*n as u32), _ => None }).unwrap_or(0)
\* a missing or non-integer entry is <<>>
dict_u32(entry) == IF entry = <<>> THEN 0 ELSE entry[1] % U32

\* the ObjectIds doc.add_object hands out, in order (max_id + 1)
NewIds == <<"N1", "N2", "N3", "N4", "N5", "N6">>

\* doc.objects is a BTreeMap: iteration is in ObjectId order
IdOrder == <<"S0", "I1", "I2", "I3", "S1">> \o NewIds

RECURSIVE InOrder(_, _)
InOrder(ids, j) ==
    IF j > Len(IdOrder) THEN <<>>
    ELSE (IF IdOrder[j] \in ids THEN <<IdOrder[j]>> ELSE <<>>) \o InOrder(ids, j + 1)

\* the ObjectId doc.add_object returns
new_id ==
    NewIds[CHOOSE j \in 1..Len(NewIds) :
             /\ NewIds[j] \notin DOMAIN objects
             /\ \A k \in 1..(j - 1) : NewIds[k] \in DOMAIN objects]

(***************************************************************************)
(* ImageDisplayInfo (lib.rs 119-153).  A DPI is the rational <<n, d>>.     *)
(***************************************************************************)
effective_dpi_x(info) ==
    IF info.display_width_points > 0
    THEN <<72 * info.pixel_width, info.display_width_points>>
    ELSE <<0, 1>>

effective_dpi_y(info) ==
    IF info.display_height_points > 0
    THEN <<72 * info.pixel_height, info.display_height_points>>
    ELSE <<0, 1>>

\* x.max(y) of two rationals with positive denominators
max_effective_dpi(info) ==
    LET x == effective_dpi_x(info)
        y == effective_dpi_y(info)
    IN  IF x[1] * y[2] >= y[1] * x[2] THEN x ELSE y

\* dpi > n
Exceeds(dpi, n) == dpi[1] > n * dpi[2]

\* (points / 72.0 * target_dpi).round() as u32: half away from zero, and the
\* cast sends a negative value to 0 (the values here are far below u32::MAX)
round_u32(points, target_dpi) ==
    IF points * target_dpi <= 0 THEN 0
    ELSE (2 * points * target_dpi + 72) \div 144

Max(x, y) == IF x >= y THEN x ELSE y

target_pixels_unclamped(info, target_dpi) ==
    <<round_u32(info.display_width_points, target_dpi),
      round_u32(info.display_height_points, target_dpi)>>

\* (target_width.max(1), target_height.max(1))
target_pixels_for_dpi(info, target_dpi) ==
    <<Max(round_u32(info.display_width_points, target_dpi), 1),
      Max(round_u32(info.display_height_points, target_dpi), 1)>>

(***************************************************************************)
(* Decoding and encoding (lib.rs 942-1256).  A decoded image is its pixel  *)
(* size and its alpha: "none" (RGB or gray), "opaque" or "translucent"     *)
(* (RGBA whose sampled alpha is all 255, or not).                          *)
(***************************************************************************)
Pixels(w, h, alpha) == [w |-> w, h |-> h, alpha |-> alpha]

NoPixels == Pixels(0, 0, "none")

\* Ok(img) as <<img>>, Err as <<>>
decode_image_stream(stream, width, height, color_space, bits_per_component) ==
    LET len == stream.data.len
        pixels == width * height
        raw == IF ~(bits_per_component = 8) THEN <<>>
               ELSE IF color_space \in {"DeviceRGB", "RGB"}
               THEN (IF len >= pixels * 3 THEN <<Pixels(width, height, "none")>> ELSE <<>>)
               ELSE IF color_space \in {"DeviceGray", "Gray"}
               THEN (IF len >= pixels THEN <<Pixels(width, height, "none")>> ELSE <<>>)
               ELSE IF color_space \in {"DeviceCMYK", "CMYK"}
               THEN (IF len >= pixels * 4 THEN <<Pixels(width, height, "none")>> ELSE <<>>)
               ELSE IF color_space = "ICCBased"
               THEN (IF len >= pixels THEN <<Pixels(width, height, "none")>> ELSE <<>>)
               ELSE <<>>
    IN  IF stream.Filter = "FlateDecode" THEN (IF stream.data.valid THEN raw ELSE <<>>)
        ELSE IF stream.Filter \in {"DCTDecode", "JPXDecode"}
        THEN (IF stream.data.valid
              THEN <<Pixels(stream.data.pw, stream.data.ph, "none")>> ELSE <<>>)
        ELSE IF stream.Filter = "none" THEN raw
        ELSE <<>>

\* Ok(alpha_data) as <<low>> (is a sampled value below 255), Err as <<>>
decode_smask_stream(stream, width, height) ==
    IF stream.Filter = "FlateDecode" /\ ~stream.data.valid THEN <<>>
    ELSE IF stream.Filter \notin {"FlateDecode", "none"} THEN <<>>
    ELSE IF stream.data.len >= width * height THEN <<stream.data.low>>
    ELSE <<>>

\* "Handle SMask": the decoded image with the soft mask's samples as alpha
with_smask(img, smask_id, width, height) ==
    IF smask_id # "none" /\ smask_id \in DOMAIN objects
       /\ decode_smask_stream(objects[smask_id], width, height) # <<>>
       /\ img.w * img.h >= width * height
    THEN Pixels(width, height,
                IF decode_smask_stream(objects[smask_id], width, height)[1]
                THEN "translucent" ELSE "opaque")
    ELSE img

resample_image(img, target_width, target_height) ==
    Pixels(target_width, target_height, img.alpha)

has_alpha(img) == img.alpha = "translucent"

\* jpeg_encoder::Encoder::encode(data, width as u16, height as u16, ..) rejects
\* a zero dimension
jpeg_fails(width, height) == width % 65536 = 0 \/ height % 65536 = 0

\* Ok(stream) as <<stream>>, Err as <<>>
encode_as_jpeg_stream(img) ==
    IF jpeg_fails(img.w, img.h) THEN <<>>
    ELSE <<Image(<<img.w>>, <<img.h>>, "DCTDecode", "DeviceRGB", 8, "none",
                 Data(TRUE, 0, img.w % 65536, img.h % 65536, FALSE))>>

create_smask_stream(img) ==
    IF jpeg_fails(img.w, img.h) THEN <<>>
    ELSE <<Image(<<img.w>>, <<img.h>>, "DCTDecode", "DeviceGray", 8, "none",
                 Data(TRUE, 0, img.w % 65536, img.h % 65536, TRUE))>>

\* the main stream of encode_with_alpha_stream (its SMask entry is set by the caller)
encode_with_alpha_stream(img) ==
    IF create_smask_stream(img) = <<>> THEN <<>>
    ELSE <<Image(<<img.w>>, <<img.h>>, "FlateDecode", "DeviceRGB", 8, "none",
                 Data(TRUE, img.w * img.h * 3, 0, 0, FALSE))>>

(***************************************************************************)
(* The entry points and the transformer (process_images_in_doc).           *)
(***************************************************************************)
NoCur == [id |-> "none", width |-> 0, height |-> 0, needs_resampling |-> FALSE,
          target_width |-> 0, target_height |-> 0, img |-> NoPixels]

\* what the transformer and the entry points leave alone
ProcFrame == <<mode, input_loads, options, contents, run, calls, frames, display_info, image_dims,
               scanned_forms, entered, loaded>>

needs_always(current_dpi, opts) == Exceeds(current_dpi, opts.min_dpi)

needs_above_target(current_dpi, opts) ==
    Exceeds(current_dpi, opts.target_dpi) /\ Exceeds(current_dpi, opts.min_dpi)

\* current_dpi > options.target_dpi + 1.0 && current_dpi > options.min_dpi
needs_resampling(current_dpi, opts) ==
    Exceeds(current_dpi, opts.target_dpi + 1) /\ Exceeds(current_dpi, opts.min_dpi)

skip_uncounted(n) == n

\* skipped_images += 1
count_skipped(n) == n + 1

\* the fallback of display_info_map.get(&object_id): 1 pixel = 1 point
display_info_for(object_id, width, height) ==
    IF object_id \in DOMAIN display_info_map THEN display_info_map[object_id]
    ELSE [pixel_width |-> width, pixel_height |-> height,
          display_width_points |-> width, display_height_points |-> height]

invalid_quality_zero_only(quality) == quality = 0

\* options.quality == 0 || options.quality > 100
invalid_quality(quality) == quality = 0 \/ quality > 100

\* resample_pdf_bytes / resample_pdf_file: the quality check, before any load
Validate ==
    /\ pc = "validate"
    /\ IF invalid_quality(options.quality)
       THEN /\ result' = "InvalidQuality"
            /\ pc' = "done"
       ELSE /\ pc' = "load"
            /\ UNCHANGED result
    /\ UNCHANGED <<objects, display_info_map, image_objects, cur, total_images,
                   resampled_images, skipped_images, first>>
    /\ UNCHANGED ProcFrame

\* ContentScanner::new: cache_image_dimensions
cache_image_dimensions ==
    [id \in {i \in DOMAIN objects :
                /\ objects[i].Subtype = "Image"
                /\ dict_u32(objects[i].Width) > 0
                /\ dict_u32(objects[i].Height) > 0} |->
        <<dict_u32(objects[id].Width), dict_u32(objects[id].Height)>>]

\* Document::load_mem, ContentScanner::new and the start of scan_all_pages
Load ==
    /\ pc = "load"
    /\ IF input_loads
       THEN /\ pc' = "scan"
            /\ image_dims' = cache_image_dimensions
            /\ display_info' = [id \in DOMAIN objects |-> <<>>]
            /\ scanned_forms' = {}
            /\ calls' = [j \in 1..Len(Pages) |-> [kind |-> "page", id |-> Pages[j]]]
            /\ frames' = <<>>
            /\ entered' = [id \in ContentIds |-> 0]
            /\ loaded' = objects
            /\ UNCHANGED result
       ELSE /\ pc' = "done"
            /\ result' = "LoadError"
            /\ UNCHANGED <<image_dims, display_info, scanned_forms, calls, frames,
                           entered, loaded>>
    /\ UNCHANGED <<mode, input_loads, options, contents, objects, run, display_info_map,
                   image_objects, cur, total_images, resampled_images, skipped_images,
                   first>>

\* scan_all_pages has returned: scanner.get_display_info_map()
Reduce ==
    /\ pc = "scan" /\ frames = <<>> /\ calls = <<>>
    /\ display_info_map' = get_display_info_map
    /\ IF mode = "info"
       THEN pc' = "done" /\ result' = "Ok"
       ELSE pc' = "process" /\ UNCHANGED result
    /\ UNCHANGED <<objects, image_objects, cur, total_images, resampled_images,
                   skipped_images, first>>
    /\ UNCHANGED ProcFrame

\* process_images_in_doc: "Collect all image XObjects"
ProcStart ==
    /\ pc = "process"
    /\ pc' = "loop"
    /\ image_objects' = InOrder({id \in DOMAIN objects : objects[id].Subtype = "Image"}, 1)
    /\ total_images' = 0
    /\ resampled_images' = 0
    /\ skipped_images' = 0
    /\ UNCHANGED <<objects, display_info_map, cur, result, first>>
    /\ UNCHANGED ProcFrame

\* the head of the per-image loop: fetch the stream, total_images += 1
ProcFetch ==
    /\ pc = "loop" /\ image_objects # <<>>
    /\ pc' = "check"
    /\ image_objects' = Tail(image_objects)
    /\ total_images' = total_images + 1
    /\ cur' = [NoCur EXCEPT !.id = Head(image_objects),
                            !.width = dict_u32(objects[Head(image_objects)].Width),
                            !.height = dict_u32(objects[Head(image_objects)].Height)]
    /\ UNCHANGED <<objects, display_info_map, resampled_images, skipped_images,
                   result, first>>
    /\ UNCHANGED ProcFrame

SkipAsError ==
    /\ result' = "ProcessingError"
    /\ pc' = "done"
    /\ UNCHANGED <<objects, resampled_images, skipped_images, cur>>

\* a skip path: skipped_images += 1; continue
Skip ==
    /\ skipped_images' = count_skipped(skipped_images)
    /\ pc' = "loop"
    /\ cur' = NoCur
    /\ UNCHANGED <<objects, resampled_images, result>>

\* the decisions before decoding: invalid dimensions, already JPEG at target
\* DPI, target dimensions not smaller
ProcCheck ==
    /\ pc = "check"
    /\ LET display == display_info_for(cur.id, cur.width, cur.height)
           current_dpi == max_effective_dpi(display)
           needs == needs_resampling(current_dpi, options)
           target == IF needs THEN target_pixels_for_dpi(display, options.target_dpi)
                     ELSE <<cur.width, cur.height>>
           is_already_jpeg == objects[cur.id].Filter = "DCTDecode"
       IN  IF cur.width = 0 \/ cur.height = 0 THEN Skip
           ELSE IF ~needs /\ is_already_jpeg THEN Skip
           ELSE IF needs /\ target[1] >= cur.width /\ target[2] >= cur.height THEN Skip
           ELSE /\ pc' = "decode"
                /\ cur' = [cur EXCEPT !.needs_resampling = needs,
                                      !.target_width = target[1],
                                      !.target_height = target[2]]
                /\ UNCHANGED <<objects, resampled_images, skipped_images, result>>
    /\ UNCHANGED <<display_info_map, image_objects, total_images, first>>
    /\ UNCHANGED ProcFrame

\* decode_image_stream and the soft mask
ProcDecode ==
    /\ pc = "decode"
    /\ LET stream == objects[cur.id]
           img == decode_image_stream(stream, cur.width, cur.height, stream.ColorSpace,
                                      stream.BitsPerComponent)
       IN  IF img = <<>> THEN Skip
           ELSE /\ pc' = "encode"
                /\ cur' = [cur EXCEPT !.img = with_smask(img[1], stream.SMask,
                                                         cur.width, cur.height)]
                /\ UNCHANGED <<objects, resampled_images, skipped_images, result>>
    /\ UNCHANGED <<display_info_map, image_objects, total_images, first>>
    /\ UNCHANGED ProcFrame

\* an encoder error leaves process_images_in_doc through `?`
Fail ==
    /\ result' = "ProcessingError"
    /\ pc' = "done"
    /\ UNCHANGED <<objects, resampled_images, cur>>

\* resample, encode, replace the stream at its ObjectId, resampled_images += 1
ProcEncode ==
    /\ pc = "encode"
    /\ LET resampled == IF cur.needs_resampling
                        THEN resample_image(cur.img, cur.target_width, cur.target_height)
                        ELSE cur.img
       IN  IF has_alpha(resampled)
           THEN IF encode_with_alpha_stream(resampled) = <<>> THEN Fail
                ELSE /\ objects' = (new_id :> create_smask_stream(resampled)[1]) @@
                          [objects EXCEPT ![cur.id] =
                              [encode_with_alpha_stream(resampled)[1] EXCEPT !.SMask = new_id]]
                     /\ resampled_images' = resampled_images + 1
                     /\ pc' = "loop"
                     /\ cur' = NoCur
                     /\ UNCHANGED result
           ELSE IF encode_as_jpeg_stream(resampled) = <<>> THEN Fail
                ELSE /\ objects' = [objects EXCEPT ![cur.id] = encode_as_jpeg_stream(resampled)[1]]
                     /\ resampled_images' = resampled_images + 1
                     /\ pc' = "loop"
                     /\ cur' = NoCur
                     /\ UNCHANGED result
    /\ UNCHANGED <<display_info_map, image_objects, total_images, skipped_images, first>>
    /\ UNCHANGED ProcFrame

\* the loop is over: Ok(ResampleResult { .. }); the document is saved
ProcFinish ==
    /\ pc = "loop" /\ image_objects = <<>>
    /\ pc' = "done"
    /\ result' = "Ok"
    /\ first' = IF run = 1
                THEN [total_images |-> total_images, resampled_images |-> resampled_images,
                      skipped_images |-> skipped_images]
                ELSE first
    /\ UNCHANGED <<objects, display_info_map, image_objects, cur, total_images,
                   resampled_images, skipped_images>>
    /\ UNCHANGED ProcFrame

\* resample_pdf_bytes called again, on the bytes the run before returned
Rerun ==
    /\ pc = "done" /\ mode = "resample" /\ result = "Ok" /\ run < MaxRuns
    /\ run' = run + 1
    /\ pc' = "validate"
    /\ result' = "none"
    /\ UNCHANGED <<mode, input_loads, options, contents, objects, calls, frames,
                   display_info,
                   image_dims, scanned_forms, display_info_map, image_objects, cur,
                   total_images, resampled_images, skipped_images, entered,
                   loaded, first>>

(***************************************************************************)
(* Initial states: the documents and options the entry points are called   *)
(* with.                                                                   *)
(***************************************************************************)
Scale2 == Mat(2, 0, 0, 2, 0, 0)

Wide == Mat(2, 0, 0, 1, 0, 0)

Tall == Mat(1, 0, 0, 2, 0, 0)

\* a = b = 0: the image's width collapses
Flat == Mat(0, 0, 0, 1, 0, 0)

Phrases ==
    {<<Word("q")>>, <<Word("Q")>>, CmTokens(Scale2), CmTokens(Flat),
     DoTokens("Im1"), DoTokens("Fm1")}

RECURSIVE Streams(_)
\* the content streams of at most n phrases
Streams(n) ==
    IF n = 0 THEN {<<>>}
    ELSE Streams(n - 1) \cup {s \o p : s \in Streams(n - 1), p \in Phrases}

\* BI /W 1 ID <data> EI, the data being bytes that spell  Q /Im2 Do
InlineImage ==
    <<Word("BI"), Name("W"), Num(1), Word("ID")>>
        \o <<Word("Q")>> \o DoTokens("Im2") \o <<Word("EI")>>

\* the other content streams: forms in a cycle; a form that draws itself and
\* paints one image at two sizes of equal area; forms that only paint; a page
\* of two streams, a form without Resources, an inline image, and operators
\* with missing or malformed operands
Scenarios ==
    {[P2 |-> <<Word("Q")>> \o DoTokens("Fm2"),
      F1 |-> <<Word("q")>> \o CmTokens(Scale2) \o DoTokens("Im1") \o DoTokens("Fm2"),
      F2 |-> <<Word("Q")>> \o DoTokens("Im2") \o DoTokens("Fm1") \o CmTokens(Flat)
                \o DoTokens("Im1"),
      T1 |-> DoTokens("Im2"), P2b |-> <<>>, F3 |-> <<>>],
     [P2 |-> CmTokens(Scale2) \o <<Word("q")>>,
      F1 |-> Block(Wide, "Im1") \o Block(Tall, "Im1") \o DoTokens("Fm1"),
      F2 |-> DoTokens("Im3") \o GsTokens("GS1"),
      T1 |-> CmTokens(Scale2) \o DoTokens("Im2"), P2b |-> <<>>, F3 |-> <<>>],
     [P2 |-> <<>>,
      F1 |-> DoTokens("Im1"),
      F2 |-> DoTokens("Im1"),
      T1 |-> <<>>, P2b |-> <<>>, F3 |-> <<>>],
     [P2 |-> <<Word("q")>> \o CmTokens(Scale2),
      P2b |-> DoTokens("Im2") \o DoTokens("Im3") \o DoTokens("Fm3"),
      F3 |-> DoTokens("Im1"),
      F1 |-> <<Word("q")>> \o CmTokens(Scale2) \o InlineImage \o DoTokens("Im1")
                \o <<Word("Q")>>,
      F2 |-> <<Word("Do"), Num(2), Num(0), Num(0), Word("cm")>> \o DoTokens("Nope")
                \o GsTokens("Nope") \o <<Name("Im1")>> \o Tail(CmTokens(Scale2))
                \o <<Num(5)>> \o CmTokens(Scale2) \o DoTokens("Im2"),
      T1 |-> <<Word("cm"), Word("gs")>> \o DoTokens("Im2")]}

Rgb(w, h, filter) ==
    Image(<<w>>, <<h>>, filter, "DeviceRGB", 8, "none", Data(TRUE, w * h * 3, w, h, FALSE))

\* an 8-bit FlateDecode soft mask whose samples include values below 255
SoftMask(w, h) ==
    Image(<<w>>, <<h>>, "FlateDecode", "DeviceGray", 8, "none", Data(TRUE, w * h, 0, 0, TRUE))

\* ResampleOptions::default()
DefaultOptions == [target_dpi |-> 150, min_dpi |-> 0, quality |-> 75]

Common ==
    /\ pc \in {"validate", "load"}
    /\ run = 1
    /\ calls = <<>>
    /\ frames = <<>>
    /\ display_info = <<>>
    /\ image_dims = <<>>
    /\ scanned_forms = {}
    /\ display_info_map = <<>>
    /\ image_objects = <<>>
    /\ cur = NoCur
    /\ total_images = 0
    /\ resampled_images = 0
    /\ skipped_images = 0
    /\ result = "none"
    /\ entered = [id \in ContentIds |-> 0]
    /\ loaded = objects
    /\ first = [total_images |-> 0, resampled_images |-> 0, skipped_images |-> 0]

\* extract_pdf_images_info on a document with generated content streams
InitInfo ==
    /\ mode = "info"
    /\ input_loads = TRUE
    /\ pc = "load"
    /\ options = DefaultOptions
    /\ \E p \in Streams(MaxPhrases), sc \in Scenarios :
          contents = [id \in ContentIds |-> IF id = "P1" THEN p ELSE sc[id]]
    /\ objects = [id \in {"I1", "I2", "I3"} |->
                    CASE id = "I1" -> Rgb(4, 4, "DCTDecode")
                      [] id = "I2" -> Rgb(2, 2, "none")
                      [] id = "I3" -> Image(<<0>>, <<4>>, "none", "DeviceRGB", 8, "none",
                                            Data(TRUE, 0, 0, 0, FALSE))]

\* the image streams a resampled document's page paints (I1)
PaintedImages ==
    {Rgb(4, 4, "DCTDecode"), Rgb(1, 1, "DCTDecode"), Rgb(4, 4, "FlateDecode"),
     Rgb(2, 2, "none"), Rgb(4, 1, "FlateDecode"),
     [Rgb(4, 4, "FlateDecode") EXCEPT !.SMask = "S0"],
     [Rgb(4, 4, "FlateDecode") EXCEPT !.SMask = "S1"],
     [Rgb(4, 4, "FlateDecode") EXCEPT !.BitsPerComponent = 1],
     [Rgb(4, 4, "FlateDecode") EXCEPT !.ColorSpace = "Separation"],
     Rgb(4, 4, "LZWDecode"),
     [Rgb(4, 4, "DCTDecode") EXCEPT !.Width = <<>>],
     [Rgb(4, 4, "DCTDecode") EXCEPT !.Width = <<-1>>]}

\* the image streams nothing paints (I2)
UnpaintedImages ==
    {Rgb(4, 4, "DCTDecode"), Rgb(4, 4, "FlateDecode"),
     [Rgb(2, 2, "JPXDecode") EXCEPT !.data.valid = FALSE],
     Rgb(65536, 1, "none"), Rgb(65537, 1, "none"), Rgb(131072, 2, "none"),
     Rgb(40, 40, "DCTDecode")}

\* the CTM under which the page paints I1: 1 x 1 pt, 2 x 2 pt, and 2 x 2 pt
\* turned by a quarter
PageCtms == {Mat(1, 0, 0, 1, 0, 0), Mat(2, 0, 0, 2, 0, 0), Mat(0, 2, -2, 0, 0, 0)}

\* resample_pdf_bytes on a one-image-per-page document
InitResample ==
    /\ mode = "resample"
    /\ pc = "validate"
    /\ \E t \in {36, 71, 72, 144}, m \in {0, 200}, q \in {0, 75, 101} :
          /\ options = [target_dpi |-> t, min_dpi |-> m, quality |-> q]
          /\ q # 75 => t = 72 /\ m = 0
    /\ \E m \in PageCtms :
          contents = [id \in ContentIds |->
                        IF id = "P1" THEN CmTokens(m) \o DoTokens("Im1")
                        ELSE <<>>]
    /\ \E i1 \in PaintedImages, i2 \in UnpaintedImages :
          objects = [id \in {"I1", "I2"} \cup ({i1.SMask} \ {"none"}) |->
                        CASE id = "I1" -> i1
                          [] id = "I2" -> i2
                          [] OTHER -> SoftMask(4, 4)]
    \* bytes that are no PDF: what they would hold does not matter
    /\ input_loads \in BOOLEAN
    /\ ~input_loads =>
          /\ objects["I1"] = Rgb(4, 4, "DCTDecode")
          /\ objects["I2"] = Rgb(4, 4, "DCTDecode")
          /\ contents["P1"] = CmTokens(identity) \o DoTokens("Im1")

Init == (InitInfo \/ InitResample) /\ Common

Next ==
    \/ Validate
    \/ Load
    \/ ScanPage
    \/ ScanAppearance
    \/ ScanPattern
    \/ StepPush
    \/ StepPop
    \/ StepCm
    \/ StepGs
    \/ StepDo
    \/ StepOther
    \/ Return
    \/ Reduce
    \/ ProcStart
    \/ ProcFetch
    \/ ProcCheck
    \/ ProcDecode
    \/ ProcEncode
    \/ ProcFinish
    \/ Rerun

Spec == Init /\ [][Next]_vars

\* the documents of the termination check: every one-phrase page over the
\* cyclic form graphs, and the one-image documents at 72 DPI
LiveInit ==
    /\ Init
    /\ mode = "info" => Len(contents["P1"]) <= MaxLivePage
    /\ mode = "resample" =>
          /\ options = [target_dpi |-> 72, min_dpi |-> 0, quality |-> 75]
          /\ objects["I2"] = Rgb(4, 4, "FlateDecode")

\* the program is sequential and runs to its end: each step is taken
FairSpec == LiveInit /\ [][Next]_vars /\ WF_vars(Next)

(***************************************************************************)
(* The pure functions, called on their own: Init draws the arguments, the  *)
(* action applies the function and keeps what it returns.                  *)
(***************************************************************************)
\* display sizes in points, zero and negative included
DisplayPoints == {-1, 0, 1, 2, 600}

\* target DPIs, zero and negative included; 2 pt at 18 DPI is half a pixel
TargetDpis == {-72, -1, 0, 1, 17, 18, 36, 72, 150}

FnInit ==
    /\ mode = "fn"
    /\ input_loads = TRUE
    /\ pc = "call"
    /\ \E t \in TargetDpis : options = [DefaultOptions EXCEPT !.target_dpi = t]
    /\ \E w, h \in DisplayPoints :
          display_info_map = [id \in {"I1"} |->
              [pixel_width |-> 4, pixel_height |-> 4,
               display_width_points |-> w, display_height_points |-> h]]
    /\ contents = [id \in ContentIds |-> <<>>]
    /\ objects = <<>>
    /\ run = 1
    /\ calls = <<>>
    /\ frames = <<>>
    /\ display_info = <<>>
    /\ image_dims = <<>>
    /\ scanned_forms = {}
    /\ image_objects = <<>>
    /\ cur = NoCur
    /\ total_images = 0
    /\ resampled_images = 0
    /\ skipped_images = 0
    /\ result = "none"
    /\ entered = [id \in ContentIds |-> 0]
    /\ loaded = <<>>
    /\ first = [total_images |-> 0, resampled_images |-> 0, skipped_images |-> 0]

\* let (target_width, target_height) = display_info.target_pixels_for_dpi(target_dpi)
CallTargetPixels ==
    /\ mode = "fn" /\ pc = "call"
    /\ pc' = "return"
    /\ LET target == target_pixels_for_dpi(display_info_map["I1"], options.target_dpi)
       IN  cur' = [NoCur EXCEPT !.id = "I1",
                                !.target_width = target[1],
                                !.target_height = target[2]]
    /\ UNCHANGED <<objects, display_info_map, image_objects, total_images,
                   resampled_images, skipped_images, result, first>>
    /\ UNCHANGED ProcFrame

FnNext == CallTargetPixels

FnSpec == FnInit /\ [][FnNext]_vars

(***************************************************************************)
(* The tokenizer of scan_content_stream (lib.rs 489-540), on characters,   *)
(* applied to the bytes get_content_data makes of a Contents array of two  *)
(* streams.  A character is a one-character string, a token a sequence of  *)
(* characters.                                                             *)
(***************************************************************************)
RECURSIVE tokenize_from(_, _, _, _, _, _)
\* `for ch in content_str.chars()` from character i on, and the final push
tokenize_from(chars, i, in_string, paren_depth, current_token, tokens) ==
    LET flushed == IF current_token # <<>> THEN Append(tokens, current_token) ELSE tokens
    IN  IF i > Len(chars) THEN flushed
        ELSE LET ch == chars[i]
             IN  IF in_string
                 THEN IF ch = "("
                      THEN tokenize_from(chars, i + 1, TRUE, paren_depth + 1,
                                         Append(current_token, ch), tokens)
                      ELSE IF ch = ")" /\ paren_depth - 1 = 0
                      THEN tokenize_from(chars, i + 1, FALSE, 0, <<>>,
                                         Append(tokens, Append(current_token, ch)))
                      ELSE IF ch = ")"
                      THEN tokenize_from(chars, i + 1, TRUE, paren_depth - 1,
                                         Append(current_token, ch), tokens)
                      ELSE tokenize_from(chars, i + 1, TRUE, paren_depth,
                                         Append(current_token, ch), tokens)
                 ELSE IF ch = "("
                 THEN tokenize_from(chars, i + 1, TRUE, 1, <<ch>>, flushed)
                 ELSE IF ch \in {" ", "\t", "\n", "\r"}
                 THEN tokenize_from(chars, i + 1, FALSE, paren_depth, <<>>, flushed)
                 ELSE IF ch \in {"[", "]"}
                 THEN tokenize_from(chars, i + 1, FALSE, paren_depth, <<>>,
                                    Append(flushed, <<ch>>))
                 ELSE tokenize_from(chars, i + 1, FALSE, paren_depth,
                                    Append(current_token, ch), tokens)

\* the token vector of a content stream's bytes
tokenize(chars) == tokenize_from(chars, 1, FALSE, 0, <<>>, <<>>)

RECURSIVE JoinedBytes(_, _)
\* get_content_data of a Contents array: combined.extend(data); combined.push(b'\n')
JoinedBytes(streams, j) ==
    IF j > Len(streams) THEN <<>>
    ELSE contents[streams[j]] \o <<"\n">> \o JoinedBytes(streams, j + 1)

\* the characters a content stream is made of: string delimiters, the escape
\* character, an operator and white space
Chars == {"(", ")", "\\", "q", " "}

RECURSIVE CharStrings(_)
\* the character strings of at most n characters
CharStrings(n) ==
    IF n = 0 THEN {<<>>}
    ELSE CharStrings(n - 1) \cup {Append(s, c) : s \in CharStrings(n - 1), c \in Chars}

\* the second stream of the array
SecondStreams ==
    {<<"q">>, <<")">>, <<")", " ", "q">>, <<"(", "q", ")">>, <<"q", " ", "q">>}

\* scan_all_pages reaches page P2, whose Contents is the array [P2 P2b]
TokInit ==
    /\ mode = "tok"
    /\ input_loads = TRUE
    /\ pc = "call"
    /\ options = DefaultOptions
    /\ \E s1 \in CharStrings(MaxChars), s2 \in SecondStreams :
          contents = [id \in ContentIds |->
                        IF id = "P2" THEN s1 ELSE IF id = "P2b" THEN s2 ELSE <<>>]
    /\ frames = <<>>
    /\ objects = <<>>
    /\ run = 1
    /\ calls = <<>>
    /\ display_info = <<>>
    /\ display_info_map = <<>>
    /\ image_dims = <<>>
    /\ scanned_forms = {}
    /\ image_objects = <<>>
    /\ cur = NoCur
    /\ total_images = 0
    /\ resampled_images = 0
    /\ skipped_images = 0
    /\ result = "none"
    /\ entered = [id \in ContentIds |-> 0]
    /\ loaded = <<>>
    /\ first = [total_images |-> 0, resampled_images |-> 0, skipped_images |-> 0]

\* get_content_data(contents), then the tokenizer of scan_content_stream
Tokenize ==
    /\ mode = "tok" /\ pc = "call"
    /\ pc' = "return"
    /\ frames' = <<[id |-> "P2", toks |-> tokenize(JoinedBytes(PageContents("P2"), 1)),
                    i |-> 1, matrix_stack |-> <<identity>>,
                    res |-> get_page_resources("P2"), pats |-> <<>>]>>
    /\ entered' = [entered EXCEPT !["P2"] = @ + 1]
    /\ UNCHANGED <<mode, input_loads, options, contents, objects, run, calls, display_info,
                   image_dims, scanned_forms, display_info_map, image_objects, cur,
                   total_images, resampled_images, skipped_images, result, loaded, first>>

TokNext == Tokenize

TokSpec == TokInit /\ [][TokNext]_vars

\* matrices with integer entries: shears, scales, a reflection, translations
Matrices ==
    {Mat(a, b, c, 1, e, -2) : a \in {1, 2}, b \in {0, -1}, c \in {0, 3}, e \in {0, 3}}

\* scan_content_stream called on  q  B cm  C cm  with initial_matrix A
MatInit ==
    /\ mode = "mat"
    /\ input_loads = TRUE
    /\ pc = "scan"
    /\ options = DefaultOptions
    /\ \E A, B, C \in Matrices :
          /\ contents = [id \in ContentIds |->
                            IF id = "F3" THEN <<Word("q")>> \o CmTokens(B) \o CmTokens(C)
                            ELSE <<>>]
          /\ frames = <<[id |-> "F3",
                         toks |-> <<Word("q")>> \o CmTokens(B) \o CmTokens(C),
                         i |-> 1, matrix_stack |-> <<A>>, res |-> "Null", pats |-> <<>>]>>
    /\ objects = <<>>
    /\ run = 1
    /\ calls = <<>>
    /\ display_info = <<>>
    /\ display_info_map = <<>>
    /\ image_dims = <<>>
    /\ scanned_forms = {"F3"}
    /\ image_objects = <<>>
    /\ cur = NoCur
    /\ total_images = 0
    /\ resampled_images = 0
    /\ skipped_images = 0
    /\ result = "none"
    /\ entered = [id \in ContentIds |-> IF id = "F3" THEN 1 ELSE 0]
    /\ loaded = <<>>
    /\ first = [total_images |-> 0, resampled_images |-> 0, skipped_images |-> 0]

MatNext == StepPush \/ StepCm \/ StepOther

MatSpec == MatInit /\ [][MatNext]_vars

(***************************************************************************)
(* Properties.                                                             *)
(***************************************************************************)
\* the token the top frame has just executed is the operator `op`
Executed(op) ==
    /\ pc = "scan" /\ frames # <<>>
    /\ Top.pats = <<>> /\ Top.i >= 2
    /\ Top.toks[Top.i - 1] = Word(op)

\* the top frame has just executed  /name op
ExecutedOn(op, name) ==
    /\ Executed(op)
    /\ Top.i >= 3
    /\ Top.toks[Top.i - 2] = Name(name)

\* get_display_info_map has run in this call
Reduced == pc \notin {"validate", "load", "scan"}

\* C1 (part): a Q executed on a stack of exactly one matrix leaves it as it is
ClampedQ ==
    (StepPop /\ Len(Top.matrix_stack) = 1)
        => frames'[Len(frames)].matrix_stack = Top.matrix_stack

\* C1: in every content stream being interpreted the CTM stack holds at least
\* one matrix after every operator, and a Q executed when it holds exactly one
\* matrix leaves the stack unchanged.
C1_CtmStackNonEmpty ==
    /\ [](\A j \in 1..Len(frames) : Len(frames[j].matrix_stack) >= 1)
    /\ [][ClampedQ]_vars

\* C1 witness: a stream whose first token is Q has executed it on [initial]
C1_Witness ==
    /\ Executed("Q")
    /\ Top.i = 2
    /\ Top.matrix_stack = <<concat(identity, parse_matrix_from_dict(Top.id))>>

\* C2: during one scan the visited set never loses an element, and the content
\* of a form, pattern or soft-mask group is interpreted at most once.
C2_VisitedOnce ==
    /\ [](\A id \in FormIds \cup PatternIds : entered[id] <= 1)
    /\ [][pc = "scan" /\ pc' = "scan" => scanned_forms \subseteq scanned_forms']_vars

\* C2 witness: F1 is reached again (by its own Do) after it was entered
C2_Witness ==
    /\ ExecutedOn("Do", "Fm1")
    /\ Top.id = "F1"
    /\ entered["F1"] = 1
    /\ "F1" \in scanned_forms

\* C3 (part): a call that starts interpreting a form or pattern adds its id,
\* not visited before, to the visited set
CallAddsNewId ==
    (pc = "scan" /\ frames # <<>> /\ Len(frames') > Len(frames))
        => /\ Last(frames').id \notin scanned_forms
           /\ Last(frames').id \in scanned_forms'

\* C3: scan_all_pages terminates on every document, cyclic ones included:
\* every scan that starts ends, and every recursive call either returns at
\* once on a visited id or adds a new id to the visited set.
C3_ScanTerminates ==
    /\ (pc = "scan") ~> (pc # "scan")
    /\ [][CallAddsNewId]_vars

\* C3 witness: inside the cycle F1 -> F2 -> F1, the inner Do of F1 has returned
C3_Witness ==
    /\ ExecutedOn("Do", "Fm1")
    /\ Top.id = "F2"
    /\ Len(frames) >= 3
    /\ frames[Len(frames) - 1].id = "F1"

(***************************************************************************)
(* The paints a viewer makes when it draws a content stream.  Render       *)
(* interprets the tokens with the operator semantics above and follows Do  *)
(* into a form each time it is invoked, unless the form is already being   *)
(* drawn (path).                                                           *)
(***************************************************************************)
RECURSIVE Render(_, _, _, _, _)
Render(toks, i, stack, res, path) ==
    IF i > Len(toks) THEN {}
    ELSE LET tok == toks[i]
             xobjects == get_xobjects_from_resources(res)
             m == current_matrix(stack)
         IN  IF tok = Word("q") THEN Render(toks, i + 1, PushQ(stack), res, path)
             ELSE IF tok = Word("Q") THEN Render(toks, i + 1, PopQ(stack), res, path)
             ELSE IF tok = Word("cm")
             THEN Render(toks, i + 1, ApplyCm(stack, toks, i), res, path)
             ELSE IF tok = Word("Do") /\ i >= 2 /\ trim_name(toks[i - 1]) \in DOMAIN xobjects
             THEN LET obj_id == xobjects[trim_name(toks[i - 1])]
                      here ==
                          IF IsStream(obj_id) /\ Subtype(obj_id) = "Image"
                          THEN {<<obj_id, scale_x(m), scale_y(m)>>}
                          ELSE IF Subtype(obj_id) = "Form" /\ obj_id \notin path
                          THEN Render(contents[obj_id], 1,
                                      <<concat(m, parse_matrix_from_dict(obj_id))>>,
                                      Resources(obj_id), path \cup {obj_id})
                          ELSE {}
                  IN  here \cup Render(toks, i + 1, stack, res, path)
             ELSE Render(toks, i + 1, stack, res, path)

\* every image paint the page content streams make through Do, in forms too
PagePaints ==
    UNION {Render(get_content_data(Pages[j]), 1, <<identity>>, Resources(Pages[j]), {}) :
              j \in 1..Len(Pages)}

\* C4: the display size chosen for an image is the largest-area rectangle over
\* all its paints, those a form makes each time it is invoked included.
C4_LargestOverAllPaints ==
    Reduced =>
        \A p \in PagePaints :
            (p[2] > 0 /\ p[3] > 0 /\ p[1] \in DOMAIN image_dims)
                => /\ p[1] \in DOMAIN display_info_map
                   /\ display_info_map[p[1]].display_width_points
                        * display_info_map[p[1]].display_height_points >= p[2] * p[3]

\* C5: every stored observation has positive width and height, and so has
\* every ImageDisplayInfo.
C5_PositiveObservations ==
    /\ \A id \in DOMAIN display_info : \A j \in 1..Len(display_info[id]) :
          display_info[id][j][1] > 0 /\ display_info[id][j][2] > 0
    /\ \A id \in DOMAIN display_info_map :
          /\ display_info_map[id].display_width_points > 0
          /\ display_info_map[id].display_height_points > 0

\* C5 witness: Do of an image under a CTM with a = b = 0, nothing recorded
C5_Witness ==
    /\ ExecutedOn("Do", "Im1")
    /\ scale_x(current_matrix(Top.matrix_stack)) = 0
    /\ display_info["I1"] = <<>>

\* C6: after the scan, exactly the images with an observation and a cached
\* pixel size have an ImageDisplayInfo, and its display size is one of the
\* image's observations, of maximal area among them.
C6_MaxAreaChosen ==
    Reduced =>
        /\ DOMAIN display_info_map =
              {id \in DOMAIN display_info :
                   display_info[id] # <<>> /\ id \in DOMAIN image_dims}
        /\ \A id \in DOMAIN display_info_map :
              LET chosen == <<display_info_map[id].display_width_points,
                              display_info_map[id].display_height_points>>
              IN  /\ \E j \in 1..Len(display_info[id]) : display_info[id][j] = chosen
                  /\ \A j \in 1..Len(display_info[id]) :
                        area(display_info[id][j]) <= area(chosen)
                  /\ display_info_map[id].pixel_width = image_dims[id][1]
                  /\ display_info_map[id].pixel_height = image_dims[id][2]

\* C6 witness: I1 observed at two areas, I3 observed but without pixel size
C6_Witness ==
    /\ pc = "done"
    /\ "I3" \in DOMAIN display_info
    /\ display_info["I3"] # <<>>
    /\ "I3" \notin DOMAIN display_info_map
    /\ \E j, k \in 1..Len(display_info["I1"]) :
          area(display_info["I1"][j]) < area(display_info["I1"][k])

\* the observations of maximal area, by position
MaxPositions(dims) ==
    {j \in 1..Len(dims) : \A k \in 1..Len(dims) : area(dims[k]) <= area(dims[j])}

Chosen(id) == <<display_info_map[id].display_width_points,
                display_info_map[id].display_height_points>>

\* C7 as stated: among observations of equal maximal area the reducer takes
\* the one recorded first.
C7_FirstOfTies ==
    Reduced =>
        \A id \in DOMAIN display_info_map :
            \E j \in MaxPositions(display_info[id]) :
                /\ \A k \in MaxPositions(display_info[id]) : j <= k
                /\ Chosen(id) = display_info[id][j]

\* C7 amended: among observations of equal maximal area the reducer takes the
\* one recorded last.
C7_LastOfTies ==
    Reduced =>
        \A id \in DOMAIN display_info_map :
            \E j \in MaxPositions(display_info[id]) :
                /\ \A k \in MaxPositions(display_info[id]) : k <= j
                /\ Chosen(id) = display_info[id][j]

\* C7 witness: two observations of equal maximal area and different sizes
C7_Witness ==
    /\ pc = "done"
    /\ "I1" \in DOMAIN display_info_map
    /\ \E j, k \in MaxPositions(display_info["I1"]) :
          display_info["I1"][j] # display_info["I1"][k]

\* C8: when process_images_in_doc returns Ok, and at every head of its loop,
\* total_images = resampled_images + skipped_images; inside an iteration the
\* image being processed is the only one counted in total_images alone.
C8_CountersAddUp ==
    /\ (pc = "loop" \/ (pc = "done" /\ result = "Ok"))
          => total_images = resampled_images + skipped_images
    /\ pc \in {"check", "decode", "encode"}
          => total_images = resampled_images + skipped_images + 1

\* C8 witness: a run returned Ok having resampled and having skipped images
C8_Witness ==
    /\ pc = "done" /\ result = "Ok"
    /\ resampled_images >= 1
    /\ skipped_images >= 1

\* C9: a run on the output of a run, with the same options, resamples nothing.
C9_Idempotent ==
    (run >= 2 /\ pc = "done" /\ result = "Ok") => resampled_images = 0

\* the image has valid dimensions and its max effective DPI is at most target_dpi
AtOrBelowTarget(id) ==
    LET width == dict_u32(loaded[id].Width)
        height == dict_u32(loaded[id].Height)
    IN  (width > 0 /\ height > 0)
            => ~Exceeds(max_effective_dpi(display_info_for(id, width, height)),
                        options.target_dpi)

\* the run returned Ok and target_dpi >= max effective DPI of every image
ReturnedAllBelowTarget ==
    /\ mode = "resample" /\ pc = "done" /\ result = "Ok"
    /\ \A id \in DOMAIN loaded : AtOrBelowTarget(id)

Reencoded ==
    {id \in DOMAIN loaded :
        /\ dict_u32(loaded[id].Width) > 0 /\ dict_u32(loaded[id].Height) > 0
        /\ loaded[id].Filter # "DCTDecode"
        /\ decode_image_stream(loaded[id], dict_u32(loaded[id].Width),
                               dict_u32(loaded[id].Height), loaded[id].ColorSpace,
                               loaded[id].BitsPerComponent) # <<>>}

C11_NeverEnlarged ==
    (pc = "encode" /\ cur.needs_resampling) =>
        /\ cur.target_width <= cur.width
        /\ cur.target_height <= cur.height
        /\ cur.target_width * cur.target_height < cur.width * cur.height

\* w is max(1, round(points / 72 * target_dpi)), the rounding to the nearest
\* integer with halves away from zero; a value that rounds to zero or below
\* gives 1
IsTargetPixels(w, points, target_dpi) ==
    IF points * target_dpi <= 0 THEN w = 1
    ELSE \E r \in 0..((points * target_dpi) \div 72 + 1) :
            /\ 144 * r - 72 <= 2 * points * target_dpi
            /\ 2 * points * target_dpi < 144 * r + 72
            /\ w = IF r >= 1 THEN r ELSE 1

\* C12: for every ImageDisplayInfo and target_dpi, zero, negative and small
\* values included, target_pixels_for_dpi returns (w, h) with w >= 1, h >= 1,
\* w = max(1, round(display_width_points / 72 * target_dpi)) and h likewise
\* (sizes are whole points here: a product below half a pixel stands for the
\* display sizes below one point).
C12_TargetAtLeastOne ==
    (mode = "fn" /\ pc = "return") =>
        /\ cur.target_width >= 1
        /\ cur.target_height >= 1
        /\ IsTargetPixels(cur.target_width,
                          display_info_map["I1"].display_width_points, options.target_dpi)
        /\ IsTargetPixels(cur.target_height,
                          display_info_map["I1"].display_height_points, options.target_dpi)

\* C12 witness: a width that rounds to zero and a negative target, both give 1
C12_Witness ==
    /\ mode = "fn" /\ pc = "return"
    /\ options.target_dpi = 17
    /\ display_info_map["I1"].display_width_points = 2
    /\ display_info_map["I1"].display_height_points = -1
    /\ cur.target_width = 1 /\ cur.target_height = 1

Det(m) == m.a * m.d - m.b * m.c

\* the page being interpreted (not a form, pattern or appearance it reaches)
\* has just executed  /name Do  on an Image XObject of its Resources
PagePainted(name) ==
    /\ ExecutedOn("Do", name)
    /\ Len(frames) = 1
    /\ \E j \in 1..Len(Pages) : Top.id = Pages[j]
    /\ name \in DOMAIN get_xobjects_from_resources(Resources(Top.id))
    /\ IsStream(get_xobjects_from_resources(Resources(Top.id))[name])
    /\ Subtype(get_xobjects_from_resources(Resources(Top.id))[name]) = "Image"

\* C13 (part): the observations of a scan are kept until it ends
ObservationsKept ==
    pc = "scan" =>
        \A id \in DOMAIN display_info :
            /\ id \in DOMAIN display_info'
            /\ Len(display_info'[id]) >= Len(display_info[id])

\* C13: when a page content stream executes Do on an Image XObject of the page
\* Resources (a 1x1 pixel one too) under a non-degenerate CTM, the image has
\* at least one observation, with both dimensions positive, after the scan.
C13_PaintObserved ==
    /\ [](\A name \in {"Im1", "Im2", "Im3"} :
            (PagePainted(name) /\ Det(current_matrix(Top.matrix_stack)) # 0)
                => LET obs == display_info[get_xobjects_from_resources(Top.res)[name]]
                   IN  /\ obs # <<>>
                       /\ \A j \in 1..Len(obs) : obs[j][1] > 0 /\ obs[j][2] > 0)
    /\ [][ObservationsKept]_vars

\* C13 witness: a 1x1 pixel image painted under a quarter-turn CTM of scale 2
C13_Witness ==
    /\ PagePainted("Im1")
    /\ current_matrix(Top.matrix_stack) = Mat(0, 2, -2, 0, 0, 0)
    /\ objects["I1"].Width = <<1>> /\ objects["I1"].Height = <<1>>
    /\ display_info["I1"] = <<<<2, 2>>>>

\* C14: resample_pdf_bytes and resample_pdf_file return InvalidQuality when
\* options.quality is 0 or above 100, before the input is loaded: whether the
\* input is a loadable PDF or not, nothing is loaded, scanned or written; and
\* for a quality in 1..100 InvalidQuality is never returned.
C14_InvalidQualityFirst ==
    mode = "resample" =>
        /\ (pc # "validate" /\ (options.quality = 0 \/ options.quality > 100))
              => /\ result = "InvalidQuality"
                 /\ pc = "done"
                 /\ image_dims = <<>> /\ display_info = <<>>
                 /\ \A id \in ContentIds : entered[id] = 0
                 /\ total_images = 0
                 /\ objects = loaded
        /\ options.quality \in 1..100 => result # "InvalidQuality"

\* C14 witness: quality 101 on bytes that are no PDF
C14_Witness ==
    /\ mode = "resample" /\ pc = "done"
    /\ ~input_loads
    /\ options.quality = 101
    /\ result = "InvalidQuality"

\* the image's resampled form would not be smaller: it needs resampling and
\* neither target dimension is below the pixel dimension
TargetNotSmaller(id) ==
    LET width == dict_u32(loaded[id].Width)
        height == dict_u32(loaded[id].Height)
        display == display_info_for(id, width, height)
        target == target_pixels_for_dpi(display, options.target_dpi)
    IN  /\ width > 0 /\ height > 0
        /\ Exceeds(max_effective_dpi(display), options.target_dpi + 1)
        /\ Exceeds(max_effective_dpi(display), options.min_dpi)
        /\ target[1] >= width /\ target[2] >= height

\* a per-image recoverable condition holds of the image as loaded
Recoverable(id) ==
    LET stream == loaded[id]
    IN  \/ stream.Width \in {<<>>, <<0>>}
        \/ stream.Height \in {<<>>, <<0>>}
        \/ stream.Filter \notin {"none", "FlateDecode", "DCTDecode", "JPXDecode"}
        \/ /\ stream.Filter \in {"none", "FlateDecode"}
           /\ \/ stream.BitsPerComponent # 8
              \/ stream.ColorSpace \notin {"DeviceRGB", "RGB", "DeviceGray", "Gray",
                                           "DeviceCMYK", "CMYK", "ICCBased"}
        \/ stream.Filter # "none" /\ ~stream.data.valid
        \/ TargetNotSmaller(id)

\* process_images_in_doc is running or has returned
Processing == mode = "resample" /\ pc \in {"loop", "check", "decode", "encode", "done"}

\* C15 (part): the step that decides on an image with a recoverable condition
\* leaves its stream, counts it as skipped and goes on with the next image
SkipsRecoverable ==
    (Processing /\ pc \in {"check", "decode"} /\ pc' # pc /\ Recoverable(cur.id)
       /\ pc' # "decode")
        => /\ objects' = objects
           /\ skipped_images' = skipped_images + 1
           /\ resampled_images' = resampled_images
           /\ result' = result
           /\ pc' = "loop"

\* C15: a per-image recoverable condition (Width or Height missing or zero,
\* unsupported colour space or bit depth of a raw/Flate image, unsupported
\* filter, decoder failure, target size not smaller) never makes
\* process_images_in_doc return Err: the stream stays at its ObjectId,
\* skipped_images grows by one, resampled_images does not, and the loop goes on.
C15_RecoverableSkipped ==
    /\ [](Processing =>
            \A id \in DOMAIN loaded :
                Recoverable(id) =>
                    /\ objects[id] = loaded[id]
                    /\ pc = "encode" => cur.id # id
                    /\ result = "ProcessingError" => cur.id # id)
    /\ [][SkipsRecoverable]_vars

\* C15 witness: an LZWDecode image and a corrupt JPXDecode image were skipped
\* and the call returned Ok
C15_Witness ==
    /\ Processing /\ pc = "done" /\ result = "Ok"
    /\ loaded["I1"].Filter = "LZWDecode"
    /\ loaded["I2"].Filter = "JPXDecode"
    /\ skipped_images = 2
    /\ objects = loaded

\* the loaded I1 is an 8-bit FlateDecode image whose soft mask is an 8-bit
\* FlateDecode stream with a sample below 255, and it is painted above the
\* target DPI with both target dimensions below its pixel dimensions
MaskedNeedsDownsampling ==
    /\ "I1" \in DOMAIN loaded
    /\ loaded["I1"].Filter = "FlateDecode"
    /\ loaded["I1"].SMask \in DOMAIN loaded
    /\ loaded[loaded["I1"].SMask].Filter = "FlateDecode"
    /\ loaded[loaded["I1"].SMask].data.low
    /\ LET width == dict_u32(loaded["I1"].Width)
           height == dict_u32(loaded["I1"].Height)
           display == display_info_for("I1", width, height)
           target == target_pixels_for_dpi(display, options.target_dpi)
       IN  /\ needs_resampling(max_effective_dpi(display), options)
           /\ target[1] < width /\ target[2] < height

\* C16: an image with an 8-bit FlateDecode soft mask holding an alpha value
\* below 255, and needing downsampling, ends as a FlateDecode DeviceRGB stream
\* of the target dimensions whose SMask is a new DCTDecode DeviceGray object
\* of the same dimensions, whatever the ObjectId order of mask and image.
C16_AlphaKept ==
    (mode = "resample" /\ pc = "done" /\ result = "Ok" /\ run = 1
       /\ MaskedNeedsDownsampling)
        => LET width == dict_u32(loaded["I1"].Width)
               height == dict_u32(loaded["I1"].Height)
               target == target_pixels_for_dpi(display_info_for("I1", width, height),
                                               options.target_dpi)
               stream == objects["I1"]
           IN  /\ stream.Filter = "FlateDecode"
               /\ stream.ColorSpace = "DeviceRGB"
               /\ stream.Width = <<target[1]>> /\ stream.Height = <<target[2]>>
               /\ stream.SMask \in DOMAIN objects \ DOMAIN loaded
               /\ objects[stream.SMask].Filter = "DCTDecode"
               /\ objects[stream.SMask].ColorSpace = "DeviceGray"
               /\ objects[stream.SMask].Width = stream.Width
               /\ objects[stream.SMask].Height = stream.Height

\* frame k is a Form XObject that frame k - 1 entered by Do and that has
\* executed no cm yet: the bottom of its matrix stack is still its initial CTM
EnteredByDo(k) ==
    /\ k >= 2 /\ k <= Len(frames)
    /\ frames[k].id \in FormIds
    /\ frames[k - 1].i >= 2
    /\ frames[k - 1].toks[frames[k - 1].i - 1] = Word("Do")
    /\ \A j \in 1..(frames[k].i - 1) :
          j <= Len(frames[k].toks) => frames[k].toks[j] # Word("cm")

\* a pure scale by positive factors
PureScale(m) == m.b = 0 /\ m.c = 0 /\ m.a > 0 /\ m.d > 0

OpaqueNeedsDownsampling(id) ==
    LET stream == loaded[id]
        width == dict_u32(stream.Width)
        height == dict_u32(stream.Height)
        display == display_info_for(id, width, height)
        target == target_pixels_for_dpi(display, options.target_dpi)
    IN  /\ stream.Subtype = "Image"
        /\ stream.SMask = "none"
        /\ width > 0 /\ height > 0
        /\ decode_image_stream(stream, width, height, stream.ColorSpace,
                               stream.BitsPerComponent) # <<>>
        /\ needs_resampling(max_effective_dpi(display), options)
        /\ target[1] < width /\ target[2] < height

\* the stream at id is the JPEG replacement of the target dimensions
ReplacedByJpeg(id) ==
    LET width == dict_u32(loaded[id].Width)
        height == dict_u32(loaded[id].Height)
        target == target_pixels_for_dpi(display_info_for(id, width, height),
                                        options.target_dpi)
    IN  /\ objects[id].Filter = "DCTDecode"
        /\ objects[id].ColorSpace = "DeviceRGB"
        /\ objects[id].BitsPerComponent = 8
        /\ objects[id].SMask = "none"
        /\ objects[id].Width = <<target[1]>>
        /\ objects[id].Height = <<target[2]>>

\* C18: an opaque decodable image above target_dpi + 1 and min_dpi whose
\* target dimensions are smaller than its pixel dimensions is replaced at its
\* ObjectId by a DCTDecode DeviceRGB 8-bit stream without SMask of the
\* dimensions target_pixels_for_dpi gives, and counted in resampled_images:
\* the call neither fails on it nor leaves it as it was.
C18_ReplacedByJpeg ==
    (mode = "resample" /\ run = 1 /\ pc = "done")
        => \A id \in DOMAIN loaded :
              (/\ OpaqueNeedsDownsampling(id)
               /\ \/ result = "Ok"
                  \/ result = "ProcessingError" /\ cur.id = id)
                  => /\ result = "Ok"
                     /\ ReplacedByJpeg(id)
                     /\ resampled_images >= 1

\* the Width or Height entry of the loaded image is missing (or no integer),
\* zero or negative
BadDimensions(id) ==
    \/ loaded[id].Width = <<>> \/ loaded[id].Height = <<>>
    \/ loaded[id].Width # <<>> /\ loaded[id].Width[1] <= 0
    \/ loaded[id].Height # <<>> /\ loaded[id].Height[1] <= 0

\* C19 (part): the transformer counts such an image as skipped at once,
\* without decoding it
SkippedUndecoded ==
    (mode = "resample" /\ pc = "check" /\ BadDimensions(cur.id) /\ pc' # pc)
        => /\ pc' = "loop"
           /\ skipped_images' = skipped_images + 1
           /\ objects' = objects

\* C19: an image whose Width or Height is missing, not an integer, zero or
\* negative gets no entry in image_dims and is counted as skipped by the
\* transformer without being decoded, negative values included.
C19_BadDimensionsSkipped ==
    /\ []((mode # "fn" /\ pc \notin {"validate", "load"} /\ result # "LoadError")
            => \A id \in DOMAIN loaded :
                  (loaded[id].Subtype = "Image" /\ BadDimensions(id))
                      => id \notin DOMAIN image_dims)
    /\ [][SkippedUndecoded]_vars

\* the streams the transformer has written: replaced at their ObjectId or added
Written == {id \in DOMAIN objects : id \notin DOMAIN loaded \/ objects[id] # loaded[id]}

\* the dictionary's Width and Height are the pixel size of the payload: the
\* size the JPEG data encodes, or the sample count of the Flate RGB data
DimensionsMatchPayload(stream) ==
    /\ stream.Width # <<>> /\ stream.Height # <<>>
    /\ stream.Filter = "DCTDecode" =>
          stream.Width[1] = stream.data.pw /\ stream.Height[1] = stream.data.ph
    /\ stream.Filter = "FlateDecode" =>
          stream.data.len = stream.Width[1] * stream.Height[1] * 3

\* C20: every stream the transformer writes (JPEG image, Flate image with
\* alpha, new soft mask) is an Image XObject with Width, Height, ColorSpace,
\* BitsPerComponent and Filter, whose Width and Height are the pixel
\* dimensions of its encoded payload, images wider than 65535 included.
C20_WrittenWellFormed ==
    (mode = "resample" /\ pc \in {"loop", "check", "decode", "encode", "done"})
        => \A id \in Written :
              /\ objects[id].Subtype = "Image"
              /\ objects[id].ColorSpace \in {"DeviceRGB", "DeviceGray"}
              /\ objects[id].BitsPerComponent = 8
              /\ objects[id].Filter \in {"DCTDecode", "FlateDecode"}
              /\ DimensionsMatchPayload(objects[id])

\* the top frame is a form, SMask group or pattern without a Resources entry,
\* called from frame Len(frames) - 1, and is at  /name Do
DoWithoutResources(name) ==
    /\ AtToken /\ Token = Word("Do")
    /\ Top.i >= 2 /\ Top.toks[Top.i - 1] = Name(name)
    /\ Len(frames) >= 2
    /\ Top.id \in FormIds \cup PatternIds
    /\ OwnResources(Top.id) = <<>>

\* C21: a form, pattern or SMask group without a Resources entry resolves the
\* names of Do against the Resources of the content stream that invoked it:
\* an image it paints under a name only that XObject dictionary defines is
\* observed, at the size its CTM gives.
C21_CallerResources ==
    [][\A name \in {"Im1", "Im2", "Im3"} :
          LET caller == XObjectDict(frames[Len(frames) - 1].res)
              m == current_matrix(Top.matrix_stack)
          IN  (/\ DoWithoutResources(name)
               /\ name \in DOMAIN caller
               /\ caller[name] \in DOMAIN objects
               /\ scale_x(m) > 0 /\ scale_y(m) > 0)
                  => display_info'[caller[name]]
                        = Append(display_info[caller[name]], <<scale_x(m), scale_y(m)>>)]_vars

\* the Resources dictionaries a name on a page is looked up in, in order: the
\* page's own, its parent's, the root page-tree node's
PageLookupChain(page) ==
    OwnResources(page) \o OwnResources(Parent(page)) \o OwnResources(CatalogPages)

\* the object the first dictionary of the chain that contains the name gives:
\* Some(id) as <<id>>, not found as <<>>
FirstContaining(chain, name) ==
    IF \E j \in 1..Len(chain) : name \in DOMAIN XObjectDict(chain[j])
    THEN <<XObjectDict(chain[CHOOSE j \in 1..Len(chain) :
                /\ name \in DOMAIN XObjectDict(chain[j])
                /\ \A k \in 1..(j - 1) : name \notin DOMAIN XObjectDict(chain[k])])[name]>>
    ELSE <<>>

\* C22: a name a page's Do uses is looked up in the page's Resources, then its
\* parent's, then the root's, and the first dictionary containing the key wins
\* (a page whose own Resources lack /Im3 still gets its parent's /Im3); a name
\* found nowhere changes nothing and is no error.
C22_FirstContainingWins ==
    [][\A name \in {"Im1", "Im2", "Im3", "Nope"} :
          LET found == FirstContaining(PageLookupChain(Top.id), name)
              m == current_matrix(Top.matrix_stack)
          IN  (/\ AtToken /\ Token = Word("Do")
               /\ Top.i >= 2 /\ Top.toks[Top.i - 1] = Name(name)
               /\ Len(frames) = 1 /\ Top.id \in {"P1", "P2"})
                  => /\ (found # <<>> /\ found[1] \in DOMAIN objects
                           /\ scale_x(m) > 0 /\ scale_y(m) > 0)
                        => display_info'[found[1]]
                              = Append(display_info[found[1]], <<scale_x(m), scale_y(m)>>)
                     /\ found = <<>>
                        => /\ display_info' = display_info
                           /\ frames' = WithTop(Advance(Top))
                           /\ result' = result]_vars

\* token i of the top frame lies in the data of an inline image: after the ID
\* of a BI ... ID and before its EI
InInlineData ==
    /\ AtToken
    /\ \E j \in 2..(Top.i - 1) :
          /\ Top.toks[j] = Word("ID")
          /\ \E b \in 1..(j - 1) : Top.toks[b] = Word("BI")
          /\ \A k \in (j + 1)..Top.i : Top.toks[k] # Word("EI")

\* C23: inline image data is never interpreted as operators: whatever the
\* byte runs between ID and EI spell, stepping over them changes neither the
\* CTM stack nor the observations nor the visited set, and recurses nowhere.
C23_InlineDataInert ==
    [][InInlineData
          => /\ Len(frames') = Len(frames)
             /\ frames'[Len(frames)].matrix_stack = Top.matrix_stack
             /\ display_info' = display_info
             /\ scanned_forms' = scanned_forms]_vars

\* the step only moves the top frame to its next token
OnlyAdvances ==
    /\ frames' = WithTop(Advance(Top))
    /\ display_info' = display_info
    /\ scanned_forms' = scanned_forms
    /\ result' = result
    /\ pc' = pc

\* the six tokens before token i of the top frame exist and are numbers
SixNumbers ==
    /\ Top.i >= 7
    /\ \A j \in 1..6 : Top.toks[Top.i - j].k = "num"

\* the token before token i of the top frame names an entry of dict
NamesEntry(dict) ==
    /\ Top.i >= 2
    /\ Top.toks[Top.i - 1].k # "num"
    /\ Top.toks[Top.i - 1].s \in DOMAIN dict

\* C24: a cm with fewer than six tokens before it, or with a non-number among
\* the six, leaves the CTM stack as it is, raises nothing, and interpretation
\* goes on; so do a Do and a gs with no token before them or with a name the
\* dictionary lacks.  A well-formed cm takes the six tokens immediately before
\* it, whatever precedes them.
C24_MalformedOperandsSkipped ==
    [][AtToken =>
          /\ (Token = Word("cm") /\ ~SixNumbers) => OnlyAdvances
          /\ (Token = Word("cm") /\ SixNumbers) =>
                /\ Len(frames') = Len(frames)
                /\ Len(frames'[Len(frames)].matrix_stack) = Len(Top.matrix_stack)
                /\ Last(frames'[Len(frames)].matrix_stack)
                     = concat(Last(Top.matrix_stack),
                              Mat(Top.toks[Top.i - 6].n, Top.toks[Top.i - 5].n,
                                  Top.toks[Top.i - 4].n, Top.toks[Top.i - 3].n,
                                  Top.toks[Top.i - 2].n, Top.toks[Top.i - 1].n))
          /\ (Token = Word("Do") /\ ~NamesEntry(get_xobjects_from_resources(Top.res)))
                => OnlyAdvances
          /\ (Token = Word("gs") /\ ~NamesEntry(get_extgstates_from_resources(Top.res)))
                => OnlyAdvances]_vars

\* C24 witness: F2 has stepped over  Do  (no token before it),  2 0 0 cm,
\* /Nope Do,  /Nope gs  and  /Im1 0 0 2 0 0 cm  with its CTM stack unchanged
C24_Witness ==
    /\ Executed("cm")
    /\ Top.id = "F2" /\ Top.i = 17
    /\ Top.toks[1] = Word("Do") /\ Top.toks[10] = Name("Im1")
    /\ Len(frames) = 1
    /\ Top.matrix_stack = <<Mat(2, 0, 0, 2, 0, 0)>>

\* the arguments of the matrix calls: the initial matrix and the two cm operands
ArgA == Top.matrix_stack[1]

ArgB == CmOperand(Top.toks, 8)[1]

ArgC == CmOperand(Top.toks, 15)[1]

\* C25: Matrix::concat is associative and Matrix::identity is its two-sided
\* unit, in all six components, over matrices with bounded integer entries;
\* so the cm operators B and C applied to top A leave A.B.C whatever the
\* grouping.
C25_ConcatAssociative ==
    mode = "mat" =>
        /\ concat(concat(ArgA, ArgB), ArgC) = concat(ArgA, concat(ArgB, ArgC))
        /\ \A m \in {ArgA, ArgB, ArgC, concat(ArgB, ArgC)} :
              concat(identity, m) = m /\ concat(m, identity) = m
        /\ Top.i = 16 => Last(Top.matrix_stack) = concat(ArgA, concat(ArgB, ArgC))

\* C25 witness: both cm operators have been applied, to matrices that do not
\* commute
C25_Witness ==
    /\ mode = "mat" /\ Top.i = 16
    /\ Executed("cm")
    /\ concat(ArgB, ArgC) # concat(ArgC, ArgB)
    /\ concat(ArgA, ArgB) # concat(ArgB, ArgA)
    /\ Last(Top.matrix_stack) = concat(concat(ArgA, ArgB), ArgC)
    /\ Last(Top.matrix_stack) # ArgA

\* the matrix scan_content_stream was called with for frame k: identity for a
\* page, else the caller's matrix (identity for an appearance) times the
\* stream's Matrix entry
InitialMatrix(k) ==
    IF frames[k].id \in {"P1", "P2"} THEN identity
    ELSE concat(IF k = 1 THEN identity ELSE current_matrix(frames[k - 1].matrix_stack),
                parse_matrix_from_dict(frames[k].id))

RECURSIVE StackRun(_, _, _, _)
\* the matrix stack after the operators q, Q and cm of tokens i..n, from stack
StackRun(toks, i, n, stack) ==
    IF i > n THEN stack
    ELSE StackRun(toks, i + 1, n,
                  IF toks[i] = Word("q") THEN PushQ(stack)
                  ELSE IF toks[i] = Word("Q") THEN PopQ(stack)
                  ELSE IF toks[i] = Word("cm") THEN ApplyCm(stack, toks, i)
                  ELSE stack)

RECURSIVE BalancedRun(_, _, _, _)
\* in tokens a..b, from nesting depth d, every Q closes a q of the run and
\* every q of the run is closed
BalancedRun(toks, a, b, d) ==
    IF a > b THEN d = 0
    ELSE IF toks[a] = Word("q") THEN BalancedRun(toks, a + 1, b, d + 1)
    ELSE IF toks[a] = Word("Q") THEN d > 0 /\ BalancedRun(toks, a + 1, b, d - 1)
    ELSE BalancedRun(toks, a + 1, b, d)

\* C26: q pushes a copy of the top and cm changes the top entry only: after
\* q S Q, S balanced in q and Q, the CTM stack is the stack before the q, in
\* length and in every entry, whatever cm operators S holds; the stack is at
\* every token what the q, Q and cm executed so far make of the initial stack,
\* so a cm at depth 1 outlives a clamped Q.
C26_SaveRestore ==
    (pc = "scan" /\ mode # "mat" /\ frames # <<>>) =>
        LET toks == Top.toks
            start == <<InitialMatrix(Len(frames))>>
            done == Top.i - 1
        IN  /\ Top.matrix_stack = StackRun(toks, 1, done, start)
            /\ \A j \in 1..(done - 1) :
                  (/\ toks[j] = Word("q") /\ toks[done] = Word("Q")
                   /\ BalancedRun(toks, j + 1, done - 1, 0))
                      => Top.matrix_stack = StackRun(toks, 1, j - 1, start)

\* C26 witness: the page has executed  q 2 0 0 2 0 0 cm Q  and its stack is
\* [identity] again
C26_Witness ==
    /\ Executed("Q")
    /\ Top.id = "P1" /\ Top.i = 10
    /\ Top.toks[1] = Word("q") /\ Top.toks[8] = Word("cm") /\ Top.toks[2] = Num(2)
    /\ Top.matrix_stack = <<identity>>

RECURSIVE PdfStringDepth(_, _, _)
\* the nesting depth of literal strings at the end of characters i.., read by
\* the lexical rules of PDF: inside a string a backslash escapes the next
\* character, other parentheses nest
PdfStringDepth(chars, i, depth) ==
    IF i > Len(chars) THEN depth
    ELSE IF depth > 0 /\ chars[i] = "\\"
    THEN (IF i + 1 > Len(chars) THEN depth + 1
          ELSE PdfStringDepth(chars, i + 2, depth))
    ELSE IF chars[i] = "(" THEN PdfStringDepth(chars, i + 1, depth + 1)
    ELSE IF chars[i] = ")" /\ depth > 0 THEN PdfStringDepth(chars, i + 1, depth - 1)
    ELSE PdfStringDepth(chars, i + 1, depth)

\* the stream ends between lexical tokens, not inside a string
EndsBetweenTokens(chars) == PdfStringDepth(chars, 1, 0) = 0

\* C27 (part): a page is interpreted from the CTM stack [identity], whatever
\* the pages before it left on theirs
PagesStartFresh ==
    \A j \in 1..Len(Pages) :
        (frames = <<>> /\ frames' # <<>> /\ frames'[1].id = Pages[j])
            => frames'[1].matrix_stack = <<identity>> /\ frames'[1].i = 1

\* C27 (part): the streams of a Contents array are interpreted in array order
\* as one token sequence on one CTM stack
ArrayIsOneSequence ==
    (pc = "scan" /\ frames # <<>> /\ frames[1].id \in {"P1", "P2"})
        => frames[1].toks = Joined(PageContents(frames[1].id), 1)

\* C27: each page is interpreted from the CTM stack [identity]; the streams of
\* a Contents array are interpreted in array order as one token sequence, and
\* no token is formed across a stream boundary: the tokens of the array are
\* the tokens of its first stream followed by those of its second.
C27_StreamsKeptApart ==
    (mode = "tok" /\ pc = "return" /\ EndsBetweenTokens(contents["P2"])) =>
        Top.toks = tokenize(contents["P2"]) \o tokenize(contents["P2b"])

\* the max effective DPI of the loaded image id: that of its ImageDisplayInfo,
\* or 72 when it has none (1 pixel = 1 point)
CurrentDpi(id) ==
    IF id \in DOMAIN display_info_map
    THEN max_effective_dpi(display_info_map[id])
    ELSE <<72, 1>>

\* needs_resample: strictly above target_dpi + 1 and strictly above min_dpi
NeedsResample(id) ==
    /\ CurrentDpi(id)[1] > (options.target_dpi + 1) * CurrentDpi(id)[2]
    /\ CurrentDpi(id)[1] > options.min_dpi * CurrentDpi(id)[2]

\* C28: the transformer changes the pixel dimensions of an image only if its
\* max effective DPI is above target_dpi + 1 and above min_dpi (72 DPI when it
\* has no ImageDisplayInfo): otherwise the image keeps Width and Height, and
\* keeps its whole stream if it is DCTDecode.
C28_ResizedOnlyAboveTarget ==
    Processing =>
        \A id \in DOMAIN loaded :
            (/\ dict_u32(loaded[id].Width) > 0 /\ dict_u32(loaded[id].Height) > 0
             /\ ~NeedsResample(id))
                => /\ objects[id].Width = loaded[id].Width
                   /\ objects[id].Height = loaded[id].Height
                   /\ loaded[id].Filter = "DCTDecode" => objects[id] = loaded[id]

\* C28 witness: at target_dpi 71 an unpainted 40x40 JPEG (72 DPI) was skipped
\* and a painted image at 144 DPI, not above min_dpi 200, kept its size
C28_Witness ==
    /\ Processing /\ pc = "done" /\ result = "Ok" /\ run = 1
    /\ options.target_dpi = 71 /\ options.min_dpi = 200
    /\ loaded["I2"] = Rgb(40, 40, "DCTDecode") /\ objects["I2"] = loaded["I2"]
    /\ "I1" \in DOMAIN display_info_map
    /\ CurrentDpi("I1") = <<72 * 4, 2>>
    /\ loaded["I1"].Filter = "FlateDecode"
    /\ objects["I1"].Filter = "DCTDecode" /\ objects["I1"].Width = <<4>>

\* C29: a form, SMask group or pattern is interpreted on a CTM stack of its
\* own: no step changes the stack of a frame below the top one, a call leaves
\* the caller's stack as it is and so does the return, whatever q, Q and cm
\* the callee executes.
C29_CalleeStackOwn ==
    [][(pc = "scan" /\ pc' = "scan") =>
          \A k \in 1..Len(frames) :
              (k <= Len(frames') /\ (k < Len(frames) \/ Len(frames') # Len(frames)))
                  => frames'[k].matrix_stack = frames[k].matrix_stack]_vars

\* C29 witness: the page, at scale 2, has drawn F1, whose content leaves a q
\* open and applies a cm; back in the page the stack is [scale 2]
C29_Witness ==
    /\ ExecutedOn("Do", "Fm1")
    /\ Len(frames) = 1 /\ Top.id = "P1" /\ Top.i = 10
    /\ entered["F1"] = 1
    /\ contents["F1"][1] = Word("q") /\ contents["F1"][8] = Word("cm")
    /\ Top.matrix_stack = <<Mat(2, 0, 0, 2, 0, 0)>>

\* "Handle SMask" on the document objs
with_smask_in(objs, img, smask_id, width, height) ==
    IF smask_id # "none" /\ smask_id \in DOMAIN objs
       /\ decode_smask_stream(objs[smask_id], width, height) # <<>>
       /\ img.w * img.h >= width * height
    THEN Pixels(width, height,
                IF decode_smask_stream(objs[smask_id], width, height)[1]
                THEN "translucent" ELSE "opaque")
    ELSE img

\* the ObjectId doc.add_object returns on the document objs
new_id_in(objs) ==
    NewIds[CHOOSE j \in 1..Len(NewIds) :
             /\ NewIds[j] \notin DOMAIN objs
             /\ \A k \in 1..(j - 1) : NewIds[k] \in DOMAIN objs]

\* one iteration of the loop of process_images_in_doc, on image id, from the
\* document and counters of st; result "none" while no error was returned
process_one(st, id) ==
    LET stream == st.objects[id]
        width == dict_u32(stream.Width)
        height == dict_u32(stream.Height)
        display == display_info_for(id, width, height)
        needs == needs_resampling(max_effective_dpi(display), options)
        target == IF needs THEN target_pixels_for_dpi(display, options.target_dpi)
                  ELSE <<width, height>>
        skipped == [st EXCEPT !.skipped_images = @ + 1]
        failed == [st EXCEPT !.result = "ProcessingError"]
        img == decode_image_stream(stream, width, height, stream.ColorSpace,
                                   stream.BitsPerComponent)
        full == with_smask_in(st.objects, img[1], stream.SMask, width, height)
        resampled == IF needs THEN resample_image(full, target[1], target[2]) ELSE full
    IN  IF st.result # "none" THEN st
        ELSE IF width = 0 \/ height = 0 THEN skipped
        ELSE IF ~needs /\ stream.Filter = "DCTDecode" THEN skipped
        ELSE IF needs /\ target[1] >= width /\ target[2] >= height THEN skipped
        ELSE IF img = <<>> THEN skipped
        ELSE IF has_alpha(resampled)
        THEN IF encode_with_alpha_stream(resampled) = <<>> THEN failed
             ELSE [st EXCEPT
                     !.objects = (new_id_in(st.objects) :> create_smask_stream(resampled)[1])
                        @@ [st.objects EXCEPT ![id] =
                              [encode_with_alpha_stream(resampled)[1]
                                  EXCEPT !.SMask = new_id_in(st.objects)]],
                     !.resampled_images = @ + 1]
        ELSE IF encode_as_jpeg_stream(resampled) = <<>> THEN failed
        ELSE [st EXCEPT !.objects = [st.objects EXCEPT ![id] =
                                        encode_as_jpeg_stream(resampled)[1]],
                        !.resampled_images = @ + 1]

RECURSIVE process_in_order(_, _, _)
\* the loop over the image ObjectIds order[j..]
process_in_order(st, order, j) ==
    IF j > Len(order) THEN st
    ELSE process_in_order(process_one(st, order[j]), order, j + 1)

\* what the loop makes of the loaded document when it visits the images in
\* the given order
OutcomeIn(order) ==
    process_in_order([objects |-> loaded, resampled_images |-> 0, skipped_images |-> 0,
                      result |-> "none"], order, 1)

\* the image ObjectIds of the loaded document and the orders to visit them in
LoadedImages == {id \in DOMAIN loaded : loaded[id].Subtype = "Image"}

VisitOrders ==
    {order \in [1..Cardinality(LoadedImages) -> LoadedImages] :
        \A j, k \in 1..Cardinality(LoadedImages) : order[j] = order[k] => j = k}

\* filter, dimensions and presence of an SMask of the stream at id
StreamSummary(objs, id) ==
    <<objs[id].Filter, objs[id].Width, objs[id].Height, objs[id].SMask # "none">>

\* C30: the outcome does not depend on the order in which the transformer
\* visits the image objects: for every order of the collected ObjectIds the
\* stream at each original ObjectId (filter, dimensions, presence of SMask)
\* and the counters are those of the run, also when one image is the soft
\* mask of another.
C30_OrderIndependent ==
    (mode = "resample" /\ pc = "done" /\ result = "Ok" /\ run = 1) =>
        \A order \in VisitOrders :
            /\ OutcomeIn(order).result = "none"
            /\ OutcomeIn(order).resampled_images = resampled_images
            /\ OutcomeIn(order).skipped_images = skipped_images
            /\ \A id \in LoadedImages :
                  StreamSummary(OutcomeIn(order).objects, id) = StreamSummary(objects, id)

====
